---- MODULE Spec2Model ----
(***************************************************************************)
(* Linecraft: the curve collection manager (CurveAnalyze in main.py), its  *)
(* reference-curve toggle, the clipboard watcher thread (AutoImporter) and *)
(* the table import entry point, as a state machine.                       *)
(*                                                                         *)
(* Python lists are modelled as sequences; an index that the code passes   *)
(* around (a row of the list widget, a key of a dict sent to the graph) is *)
(* kept 0-based as in the source, and At/Pop/Insert translate.             *)
(***************************************************************************)
EXTENDS Integers, Sequences, FiniteSets, TLC

\* ---------------------------------------------------------------- bounds
\* Largest number of curves the collection is allowed to grow to.
MaxCurves == 3

\* Largest collection in the runs that follow the reference curve.
MaxRefCurves == 2

\* Longest list of name suffixes a curve is allowed to collect.
MaxSuffixes == 1

\* ------------------------------------------------------------- constants
\* Settings.import_ppo default
import_ppo == 96

VARIABLES
    curves,     \* CurveAnalyze.curves, the single source of truth
    qlist,      \* rows of CurveAnalyze.qlistwidget_for_curves
    selected,   \* selected rows of the list widget, in selection order
    ev,         \* the last event handled: which handler, what it emitted and raised
    pastes,     \* how many different contents the clipboard has held so far
    ui,         \* the buttons whose state the handlers read or set
    importer    \* auto import: its button, the AutoImporter threads, the queued
                \* signal_new_import calls, the clipboard and the warnings logged

vars == <<curves, qlist, selected, ev, pastes, ui, importer>>

\* ------------------------------------------------- Python list operations
At(s, i) == s[i + 1]

\* list.pop(i) for a row of the list; no caller passes any other index
Pop(s, i) == IF i \in 0..(Len(s) - 1) THEN SubSeq(s, 1, i) \o SubSeq(s, i + 2, Len(s)) ELSE s

Insert(s, i, x) ==
    LET k == IF i > Len(s) THEN Len(s) ELSE i
    IN  SubSeq(s, 1, k) \o <<x>> \o SubSeq(s, k + 1, Len(s))

SetAt(s, i, x) == [s EXCEPT ![i + 1] = x]

Range(s) == {s[k] : k \in 1..Len(s)}

Rows(s) == 0..(Len(s) - 1)

\* the selected rows taken from the highest to the lowest
RECURSIVE SortedDescending(_)
SortedDescending(S) ==
    IF S = {} THEN <<>>
    ELSE LET m == CHOOSE x \in S : \A y \in S : x >= y
         IN  <<m>> \o SortedDescending(S \ {m})

\* sorted(indexes): ascending
RECURSIVE Sorted(_)
Sorted(S) ==
    IF S = {} THEN <<>>
    ELSE LET m == CHOOSE x \in S : \A y \in S : x <= y
         IN  <<m>> \o Sorted(S \ {m})

\* sorted(indexes, reverse=True): descending, duplicates kept
RECURSIVE SortedReverse(_)
SortedReverse(s) ==
    IF Len(s) = 0 THEN <<>>
    ELSE LET k == CHOOSE k \in 1..Len(s) : \A j \in 1..Len(s) : s[k] >= s[j]
         IN  <<s[k]>> \o SortedReverse(SubSeq(s, 1, k - 1) \o SubSeq(s, k + 1, Len(s)))

\* the dict built the other way round: dict(zip(values, keys))
DictZipSwapped(keys, values) ==
    LET n == IF Len(keys) < Len(values) THEN Len(keys) ELSE Len(values)
    IN  [v \in {values[j] : j \in 1..n} |->
            keys[CHOOSE j \in 1..n : values[j] = v /\ \A h \in (j + 1)..n : values[h] # v]]

\* dict(zip(keys, values)): a later pair with the same key replaces an earlier one
DictZip(keys, values) ==
    LET n == IF Len(keys) < Len(values) THEN Len(keys) ELSE Len(values)
    IN  [k \in {keys[j] : j \in 1..n} |->
            values[CHOOSE j \in 1..n : keys[j] = k /\ \A h \in (j + 1)..n : keys[h] # k]]

\* [*range(n)]
RangeList(n) == [k \in 1..n |-> k - 1]

\* ------------------------------------------------------------ Curve names
DigitChar(d) == <<"0", "1", "2", "3", "4", "5", "6", "7", "8", "9">>[d + 1]

RECURSIVE Decimal(_)
Decimal(i) == IF i < 10 THEN DigitChar(i) ELSE Decimal(i \div 10) \o DigitChar(i % 10)

\* f"#{i:02d}"
IndexPrefix(i) == "#" \o (IF i < 10 THEN "0" ELSE "") \o Decimal(i)

RECURSIVE JoinComma(_)
JoinComma(s) ==
    IF Len(s) = 0 THEN ""
    ELSE IF Len(s) = 1 THEN s[1]
    ELSE s[1] \o ", " \o JoinComma(Tail(s))

RECURSIVE JoinSpace(_)
JoinSpace(parts) ==
    IF Len(parts) = 0 THEN ""
    ELSE IF Len(parts) = 1 THEN parts[1]
    ELSE parts[1] \o " " \o JoinSpace(Tail(parts))

\* Curve.get_full_name: prefix, base and the joined suffixes, empty parts left out
get_full_name(c) ==
    JoinSpace(SelectSeq(<<c.prefix, c.base, JoinComma(c.suffixes)>>, LAMBDA p : p # ""))

has_name_prefix(c) == c.prefix # ""

set_name_prefix(c, p) == [c EXCEPT !.prefix = p]

\* the identification a Curve has until one is assigned to it
NoToken == "default"

\* A Curve built from parsed data: no index tag yet, visible, not the reference
NewCurve(data) ==
    [xy |-> [data |-> data, ppo |-> 0, gain |-> 0, bw |-> 0],
     prefix |-> "", base |-> "", suffixes |-> <<>>, visible |-> TRUE, ref |-> FALSE,
     identification |-> NoToken]

\* a row of the list widget: its text, and the thin font of a hidden curve
ListItem(c) == [text |-> get_full_name(c), thin |-> ~c.visible]

\* ------------------------------------------------------------- signals
Sig(name, arg) == [sig |-> name, arg |-> arg]

bad_beep == Sig("signal_bad_beep", <<>>)

good_beep == Sig("signal_good_beep", <<>>)

\* what a handler leaves behind: its name, the signals it emitted in order, and
\* the exception it ended with ("none" when it returned)
Event(op, out, raised) == [op |-> op, out |-> out, raised |-> raised]

\* ------------------------------------------------------------ selection
get_selected_curve_indexes == selected

SelectEvent(sel) ==
    /\ sel # selected
    /\ selected' = sel
    /\ ev' = Event("select", <<>>, "none")
    /\ UNCHANGED <<curves, qlist>>

\* a plain click on a row: that row alone is selected
ClickRow(i) == SelectEvent(<<i>>)

\* a ctrl-click on a row: the row joins the selection last, or leaves it
CtrlClickRow(i) ==
    SelectEvent(IF i \in Range(selected)
                THEN SelectSeq(selected, LAMBDA j : j # i)
                ELSE Append(selected, i))

\* ------------------------------------------------------- _add_single_curve
\* the append branch (i_insert is None or beyond the end)
AddAppend(cs, ql, curve) ==
    LET i_max == Len(cs)
        c == IF has_name_prefix(curve) THEN curve
             ELSE set_name_prefix(curve, IndexPrefix(i_max))
    IN  [curves |-> Append(cs, c), qlist |-> Append(ql, ListItem(c)), index |-> i_max]

\* the insert branch
AddInsert(cs, ql, i_insert, curve) ==
    LET i_max == Len(cs)
        c == set_name_prefix(curve, IndexPrefix(i_max))
    IN  [curves |-> Insert(cs, i_insert, c), qlist |-> Insert(ql, i_insert, ListItem(c)),
         index |-> i_insert]

\* i_insert = -1 stands for None
add_single_curve(cs, ql, i_insert, curve) ==
    IF i_insert = -1 \/ i_insert >= Len(cs)
    THEN AddAppend(cs, ql, curve)
    ELSE AddInsert(cs, ql, i_insert, curve)

\* ----------------------------------------------------- import_single_curve
\* what is on the clipboard: 0 is text that does not parse to a curve
ClipboardData == 0..MaxCurves

is_curve_data(data) == data # 0

\* signal_tools.interpolate_to_ppo followed by Curve.set_xy
Interpolated(c, ppo) == [c EXCEPT !.xy.ppo = ppo]

\* import_single_curve(curve) once the curve is known: interpolation, then
\* _add_single_curve(None, curve), setCurrentRow and the good beep
ImportCurve(cs, ql, curve) ==
    LET c == IF import_ppo > 0 THEN Interpolated(curve, import_ppo) ELSE curve
        r == add_single_curve(cs, ql, -1, c)
    IN  [curves |-> r.curves, qlist |-> r.qlist, selected |-> <<r.index>>]

\* import_single_curve() from the button: the curve is read from the clipboard
ImportSingleCurve(data) ==
    IF ~is_curve_data(data)
    THEN /\ ev' = Event("import_single_curve", <<bad_beep>>, "none")
         /\ UNCHANGED <<curves, qlist, selected>>
    ELSE LET r == ImportCurve(curves, qlist, NewCurve(data))
         IN  /\ curves' = r.curves
             /\ qlist' = r.qlist
             /\ selected' = r.selected
             /\ ev' = Event("import_single_curve", <<good_beep>>, "none")

\* ------------------------------------------------------------ remove_curves
\* for i in sorted(indexes_to_remove, reverse=True): takeItem(i); curves.pop(i)
RECURSIVE PopEach(_, _)
PopEach(s, order) ==
    IF Len(order) = 0 THEN s ELSE PopEach(Pop(s, order[1]), Tail(order))

\* the indexes popped in the order they were given
RemovalOrderAsGiven(indexes) == indexes

RemovalOrder(indexes) == SortedReverse(indexes)

remove_curves(cs, ql, indexes) ==
    [curves |-> PopEach(cs, RemovalOrder(indexes)),
     qlist |-> PopEach(ql, RemovalOrder(indexes))]

\* remove_curves() from the button or the Delete key: the selection is removed
RemoveCurves ==
    IF Len(selected) = 0
    THEN /\ ev' = Event("remove_curves", <<bad_beep>>, "none")
         /\ UNCHANGED <<curves, qlist, selected>>
    ELSE LET r == remove_curves(curves, qlist, get_selected_curve_indexes)
         IN  /\ curves' = r.curves
             /\ qlist' = r.qlist
             /\ selected' = <<>>
             /\ ev' = Event("remove_curves",
                            <<Sig("signal_remove_curves_request", selected)>>, "none")

\* ----------------------------------------------------------- _move_curve_up
\* one pass of the loop body for a curve that may move
MoveOne(st, i_before, i_after) ==
    LET curve == At(st.curves, i_before)
    IN  [st EXCEPT
            !.curves = Insert(Pop(st.curves, i_before), i_after, curve),
            !.qlist = Pop(Insert(st.qlist, i_after, ListItem(curve)), i_before + 1),
            !.order = Insert(Pop(st.order, i_before), i_after, At(st.order, i_before)),
            !.moved = st.moved + 1]

RECURSIVE MoveLoop(_, _, _, _)
MoveLoop(st, items, i_insert, i_within_selected) ==
    IF i_within_selected >= Len(items) THEN st
    ELSE LET i_before == At(items, i_within_selected)
             i_after == i_insert + i_within_selected
         IN  IF i_before < i_after
             THEN [st EXCEPT !.raised = "IndexError"]
             ELSE MoveLoop(MoveOne(st, i_before, i_after), items, i_insert,
                           i_within_selected + 1)

\* sorted(selected_indexes_and_curves.items()): the selected rows, lowest first
SelectedAsGiven(sel) == sel

SelectedSorted(sel) == Sorted(Range(sel))

move_curve_up(i_insert) ==
    LET st0 == [curves |-> curves, qlist |-> qlist, order |-> RangeList(Len(curves)),
                moved |-> 0, raised |-> "none"]
        items == SelectedSorted(selected)
        st == MoveLoop(st0, items, i_insert, 0)
        left == {At(items, k) : k \in st.moved..(Len(items) - 1)}
    IN  [curves |-> st.curves, qlist |-> st.qlist, raised |-> st.raised,
         \* the rows taken out of the widget leave the selection
         selected |-> SelectSeq(selected, LAMBDA i : i \in left),
         out |-> IF st.raised = "none"
                 THEN <<Sig("signal_reposition_curves_request",
                            DictZip(st.order, RangeList(Len(st.curves))))>>
                 ELSE <<>>]

MoveUpTarget(selected_indexes) ==
    IF selected_indexes[1] - 1 > 0 THEN selected_indexes[1] - 1 ELSE 0

move_up_1 ==
    IF Len(selected) = 0
    THEN /\ ev' = Event("move_up_1", <<bad_beep>>, "none")
         /\ UNCHANGED <<curves, qlist, selected>>
    ELSE LET i_insert == MoveUpTarget(get_selected_curve_indexes)
             r == move_curve_up(i_insert)
         IN  /\ curves' = r.curves
             /\ qlist' = r.qlist
             /\ selected' = IF r.raised = "none" /\ Len(selected) = 1
                            THEN <<i_insert>> ELSE r.selected
             /\ ev' = Event("move_up_1", r.out, r.raised)

move_to_top ==
    IF Len(selected) = 0
    THEN /\ ev' = Event("move_to_top", <<bad_beep>>, "none")
         /\ UNCHANGED <<curves, qlist, selected>>
    ELSE LET r == move_curve_up(0)
         IN  /\ curves' = r.curves
             /\ qlist' = r.qlist
             /\ selected' = IF r.raised = "none" THEN <<>> ELSE r.selected
             /\ ev' = Event("move_to_top", r.out, r.raised)

\* ------------------------------------------------------------ reset_indexes
\* the numbering started at one
RenumberedFromOne(cs) == [k \in 1..Len(cs) |-> set_name_prefix(cs[k], IndexPrefix(k))]

Renumbered(cs) == [k \in 1..Len(cs) |-> set_name_prefix(cs[k], IndexPrefix(k - 1))]

reset_indexes ==
    IF Len(curves) = 0
    THEN /\ ev' = Event("reset_indexes", <<bad_beep>>, "none")
         /\ UNCHANGED <<curves, qlist, selected>>
    ELSE LET cs == Renumbered(curves)
             new_labels == [i \in Rows(cs) |-> <<get_full_name(At(cs, i)), At(cs, i).visible>>]
         IN  /\ curves' = cs
             /\ qlist' = [k \in 1..Len(qlist) |-> [qlist[k] EXCEPT !.text = get_full_name(cs[k])]]
             /\ ev' = Event("reset_indexes",
                            <<Sig("signal_update_labels_request", new_labels)>>, "none")
             /\ UNCHANGED selected

\* ---------------------------------------------------------- set_widget_state
\* the Curve made of one saved entry: Curve((x, y)), then set_visible and
\* the saved identification
CurveAlwaysVisible(info) ==
    [NewCurve(info.xy.data) EXCEPT !.xy = info.xy,
                                   !.identification = info.identification]

CurveFromInfo(info) ==
    [NewCurve(info.xy.data) EXCEPT !.xy = info.xy, !.visible = info.visible,
                                   !.identification = info.identification]

RECURSIVE AddSaved(_, _)
AddSaved(st, curves_info) ==
    IF Len(curves_info) = 0 THEN st
    ELSE LET r == add_single_curve(st.curves, st.qlist, -1, CurveFromInfo(curves_info[1]))
         IN  AddSaved([curves |-> r.curves, qlist |-> r.qlist], Tail(curves_info))

\* ------------------------------------------------- the collection manager
NoEvent == Event("init", <<>>, "none")

\* a saved state of n visible curves, all different
SavedState(n) ==
    [k \in 1..n |-> [visible |-> TRUE, identification |-> NoToken, xy |-> NewCurve(k).xy]]

\* _create_widgets: "Set reference" is checkable and unchecked, "Processing" enabled
InitialButtons == [set_reference_checked |-> FALSE, processing_enabled |-> TRUE]

\* "Auto import" is checkable and unchecked, no AutoImporter exists yet; the
\* clipboard holds some text that is no curve
NoImporter ==
    [checked |-> FALSE, threads |-> <<>>, queue |-> <<>>,
     clipboard |-> [id |-> 0, kind |-> "text"], log |-> 0]

\* main(): the window is constructed and, when an infile is given, its state is added
Init ==
    \E n \in 0..MaxCurves :
        LET st == AddSaved([curves |-> <<>>, qlist |-> <<>>], SavedState(n))
        IN  /\ curves = st.curves
            /\ qlist = st.qlist
            /\ selected = <<>>
            /\ ev = NoEvent
            /\ pastes = n
            /\ ui = InitialButtons
            /\ importer = NoImporter

Next ==
    \/ \E i \in Rows(curves) : ClickRow(i) /\ UNCHANGED <<pastes, ui, importer>>
    \/ \E i \in Rows(curves) : CtrlClickRow(i) /\ UNCHANGED <<pastes, ui, importer>>
    \/ RemoveCurves /\ UNCHANGED <<pastes, ui, importer>>
    \/ move_up_1 /\ UNCHANGED <<pastes, ui, importer>>
    \/ move_to_top /\ UNCHANGED <<pastes, ui, importer>>
    \/ reset_indexes /\ UNCHANGED <<pastes, ui, importer>>

Spec == Init /\ [][Next]_vars

\* --------------------------------------------------------- hide and show
SetVisible(cs, rows, v) ==
    [k \in 1..Len(cs) |-> IF k - 1 \in rows THEN [cs[k] EXCEPT !.visible = v] ELSE cs[k]]

SetThin(ql, rows, thin) ==
    [k \in 1..Len(ql) |-> IF k - 1 \in rows THEN [ql[k] EXCEPT !.thin = thin] ELSE ql[k]]

\* update_visibilities_of_graph_curves: {i: (None, visible)} for the given rows
VisibilityStates(cs, rows) == [i \in rows |-> <<"None", At(cs, i).visible>>]

\* hide_curves() and show_curves() from their buttons: the selection is hidden or shown
ChangeVisibility(op, v) ==
    IF Len(selected) = 0
    THEN /\ ev' = Event(op, <<bad_beep>>, "none")
         /\ UNCHANGED <<curves, qlist, selected>>
    ELSE LET cs == SetVisible(curves, Range(selected), v)
         IN  /\ curves' = cs
             /\ qlist' = SetThin(qlist, Range(selected), ~v)
             /\ ev' = Event(op, <<Sig("graph.update_labels_and_visibilities",
                                      VisibilityStates(cs, Range(selected)))>>, "none")
             /\ UNCHANGED selected

hide_curves == ChangeVisibility("hide_curves", FALSE)

show_curves == ChangeVisibility("show_curves", TRUE)

\* ------------------------------------------------------------ Curve suffixes
add_name_suffix(c, text) == [c EXCEPT !.suffixes = Append(c.suffixes, text)]

\* the first entry equal to the text is dropped; without one nothing changes
remove_name_suffix(c, text) ==
    IF \E k \in 1..Len(c.suffixes) : c.suffixes[k] = text
    THEN LET k == CHOOSE k \in 1..Len(c.suffixes) :
                      c.suffixes[k] = text /\ \A j \in 1..(k - 1) : c.suffixes[j] # text
         IN  [c EXCEPT !.suffixes = SubSeq(c.suffixes, 1, k - 1)
                                    \o SubSeq(c.suffixes, k + 1, Len(c.suffixes))]
    ELSE c

clear_name_suffixes(c) == [c EXCEPT !.suffixes = <<>>]

set_name_base(c, text) == [c EXCEPT !.base = text]

set_reference(c, v) == [c EXCEPT !.ref = v]

SetText(ql, i, c) == SetAt(ql, i, [At(ql, i) EXCEPT !.text = get_full_name(c)])

\* ------------------------------------------------------ _rename_curve_clicked
\* several curves selected: the text becomes a further suffix of each
RenameMany(cs, rows, text) ==
    [k \in 1..Len(cs) |-> IF k - 1 \in rows THEN add_name_suffix(cs[k], text) ELSE cs[k]]

\* one curve selected: the text replaces base name and suffixes
RenameOne(c, text) == set_name_base(clear_name_suffixes(c), text)

\* list_item.setText(curve.get_full_name()) for each renamed curve
NotRetitled(ql, cs, rows) == ql

Retitled(ql, cs, rows) ==
    [k \in 1..Len(ql) |-> IF k - 1 \in rows THEN [ql[k] EXCEPT !.text = get_full_name(cs[k])]
                          ELSE ql[k]]

Labels(cs, rows) == [i \in rows |-> <<get_full_name(At(cs, i)), At(cs, i).visible>>]

\* the "Rename" button; ok and text are what the input dialog returns.  With one
\* row selected by ctrl-click the current row is that row.
rename_curve_clicked(ok, text) ==
    IF Len(selected) = 0
    THEN /\ ev' = Event("_rename_curve_clicked", <<bad_beep>>, "none")
         /\ UNCHANGED <<curves, qlist, selected>>
    ELSE IF ~ok \/ text = ""
    THEN /\ ev' = Event("_rename_curve_clicked", <<>>, "none")
         /\ UNCHANGED <<curves, qlist, selected>>
    ELSE LET rows == Range(selected)
             cs == IF Len(selected) > 1 THEN RenameMany(curves, rows, text)
                   ELSE SetAt(curves, selected[1], RenameOne(At(curves, selected[1]), text))
         IN  /\ curves' = cs
             /\ qlist' = Retitled(qlist, cs, rows)
             /\ ev' = Event("_rename_curve_clicked",
                            <<Sig("graph.update_labels_and_visibilities", Labels(cs, rows))>>,
                            "none")
             /\ UNCHANGED selected

\* ---------------------------------------------- reference_curve_status_toggle
ReferenceCurves(cs) == {i \in Rows(cs) : At(cs, i).ref}

\* the selection names at least one curve
SomeSelection(sel) == Len(sel) >= 1

\* the selection names exactly one curve
SingleSelection(sel) == Len(sel) = 1

\* The suffix is added unless the curve carries it already.
MarkReferenceOnce(c) ==
    set_reference(IF "reference" \in Range(c.suffixes) THEN c
                  ELSE add_name_suffix(c, "reference"), TRUE)

\* mark it as reference
MarkReference(c) == set_reference(add_name_suffix(c, "reference"), TRUE)

\* the suffix is taken off and the flag left as it was
RevertSuffixOnly(c) == remove_name_suffix(c, "reference")

\* revert it
RevertReference(c) == set_reference(remove_name_suffix(c, "reference"), FALSE)

\* The number of reference curves found is not looked at.
AnyNumberOfReferences(reference_curves) == FALSE

\* elif len(reference_curves) > 1
MultipleReferences(reference_curves) == Cardinality(reference_curves) > 1

\* the branch for checked = False, also run when setChecked(False) unchecks
\* the button.  st is [curves, qlist, ui, out, raised].
ToggleOff(st) ==
    LET refs == ReferenceCurves(st.curves)
    IN  IF refs = {} THEN st
        ELSE IF MultipleReferences(refs) THEN [st EXCEPT !.raised = "ValueError"]
        ELSE LET index == CHOOSE i \in refs : TRUE
                 c == RevertReference(At(st.curves, index))
             IN  [st EXCEPT
                    !.curves = SetAt(st.curves, index, c),
                    !.qlist = SetText(st.qlist, index, c),
                    \* emit(None)
                    !.out = Append(st.out, Sig("signal_toggle_reference_curve_request", <<>>)),
                    \* the graph answers signal_is_reference_curve_active(False)
                    !.ui = [set_reference_checked |-> FALSE, processing_enabled |-> TRUE]]

\* the branch for checked = True
ToggleOn(st, sel) ==
    IF SingleSelection(sel)
    THEN LET index == sel[1]
             c == MarkReference(At(st.curves, index))
         IN  [st EXCEPT
                !.curves = SetAt(st.curves, index, c),
                !.qlist = SetText(st.qlist, index, c),
                !.out = Append(st.out, Sig("signal_toggle_reference_curve_request",
                                           <<index, c>>)),
                \* processing is blocked; the graph answers
                \* signal_is_reference_curve_active(True)
                !.ui = [set_reference_checked |-> TRUE, processing_enabled |-> FALSE]]
    ELSE \* setChecked(False) emits toggled(False), handled before the beep
         LET off == ToggleOff([st EXCEPT !.ui.set_reference_checked = FALSE])
         IN  IF off.raised # "none" THEN off
             ELSE [off EXCEPT !.out = Append(off.out, bad_beep)]

\* the user clicks the checkable "Set reference" button: toggled(checked)
ClickSetReference ==
    LET checked == ~ui.set_reference_checked
        st0 == [curves |-> curves, qlist |-> qlist, out |-> <<>>, raised |-> "none",
                ui |-> [ui EXCEPT !.set_reference_checked = checked]]
        st == IF checked THEN ToggleOn(st0, selected) ELSE ToggleOff(st0)
    IN  /\ curves' = st.curves
        /\ qlist' = st.qlist
        /\ ui' = st.ui
        /\ ev' = Event(IF checked THEN "reference_curve_status_toggle(True)"
                       ELSE "reference_curve_status_toggle(False)", st.out, st.raised)
        /\ UNCHANGED selected

\* remove_curves() while a reference may be shown: when the reference line goes,
\* the graph may report signal_is_reference_curve_active(False), which unchecks
\* the button (its toggled(False) handler then runs on the shortened list) and
\* enables "Processing"
RemoveCurvesShown(graph_reports) ==
    /\ RemoveCurves
    /\ IF /\ graph_reports
          /\ \E i \in Range(selected) : At(curves, i).ref
       THEN LET st == ToggleOff([curves |-> curves', qlist |-> qlist', out |-> <<>>,
                                 raised |-> "none",
                                 ui |-> [ui EXCEPT !.set_reference_checked = FALSE]])
            IN  ui' = [st.ui EXCEPT !.processing_enabled = TRUE]
       ELSE UNCHANGED ui

\* ------------------------------------------------------------------ _add_gain
\* f"{value:.2f}" of a value given in hundredths: the spin box of the dialog
\* delivers the gain with two decimals
TwoDecimals(n) ==
    Decimal(n \div 100) \o "." \o DigitChar((n \div 10) % 10) \o DigitChar(n % 10)

\* A gain of zero is described as subtracted.
GainTextZeroSubtracted(gain_value) ==
    IF gain_value <= 0 THEN "subtracted " \o TwoDecimals(-gain_value) \o "dB"
    ELSE "added " \o TwoDecimals(gain_value) \o "dB"

\* desc_text, the gain in hundredths of a dB
GainText(gain_value) ==
    IF gain_value < 0 THEN "subtracted " \o TwoDecimals(-gain_value) \o "dB"
    ELSE "added " \o TwoDecimals(gain_value) \o "dB"

\* new_curve.set_xy((x, y + gain_value)); new_curve.add_name_suffix(desc_text)
GainCopy(c, gain_value) ==
    add_name_suffix([c EXCEPT !.xy.gain = c.xy.gain + gain_value], GainText(gain_value))

\* The Curve objects a processing function holds are cells of a heap: a
\* sequence of curve values, a reference being a position in it.
\* The result is the very object it was made from.
same_object(heap, ref) == [heap |-> heap, ref |-> ref]

\* deepcopy(curve): a new object with the same content
deepcopy(heap, ref) == [heap |-> Append(heap, heap[ref]), ref |-> Len(heap) + 1]

\* result_curves = [deepcopy(curve) for curve in selected_curves]
RECURSIVE CopyEach(_, _, _)
CopyEach(heap, n, refs) ==
    IF Len(refs) = n THEN [heap |-> heap, refs |-> refs]
    ELSE LET r == deepcopy(heap, Len(refs) + 1)
         IN  CopyEach(r.heap, n, Append(refs, r.ref))

\* for new_curve in result_curves: the levels are shifted and the suffix added
RECURSIVE ShiftEach(_, _, _)
ShiftEach(heap, refs, gain_value) ==
    IF Len(refs) = 0 THEN heap
    ELSE ShiftEach([heap EXCEPT ![refs[1]] = GainCopy(heap[refs[1]], gain_value)],
                   Tail(refs), gain_value)

\* _add_gain(): the results to insert at row 0, and the selected curves as the
\* function leaves them
add_gain(gain_value) ==
    LET n == Len(selected)
        copied == CopyEach([k \in 1..n |-> At(curves, selected[k])], n, <<>>)
        heap == ShiftEach(copied.heap, copied.refs, gain_value)
    IN  [to_insert |-> [k \in 1..n |-> heap[copied.refs[k]]], at |-> 0,
         originals |-> [k \in 1..n |-> heap[k]]]

\* _processing_dialog_return for one list of curves: each is inserted at the same
\* row, the last first
RECURSIVE InsertReversed(_, _, _)
InsertReversed(st, i_to_insert, cs) ==
    IF Len(cs) = 0 THEN st
    ELSE LET r == add_single_curve(st.curves, st.qlist, i_to_insert, cs[Len(cs)])
         IN  InsertReversed([curves |-> r.curves, qlist |-> r.qlist], i_to_insert,
                            SubSeq(cs, 1, Len(cs) - 1))

\* the "Processing" button, tab "Add gain", Run
ProcessingAddGain(gain_value) ==
    /\ ui.processing_enabled
    /\ IF Len(selected) = 0
       THEN /\ ev' = Event("open_processing_dialog", <<bad_beep>>, "none")
            /\ UNCHANGED <<curves, qlist, selected>>
       ELSE LET res == add_gain(gain_value)
                st == InsertReversed([curves |-> curves, qlist |-> qlist], res.at,
                                     res.to_insert)
            IN  /\ curves' = st.curves
                /\ qlist' = st.qlist
                \* the rows inserted above push the selected rows down
                /\ selected' = [k \in 1..Len(selected) |-> selected[k] + Len(res.to_insert)]
                /\ ev' = Event("_add_gain", <<good_beep>>, "none")

\* ------------------------------------------------------- "Add state to current"
set_widget_state(curves_info) ==
    LET st == AddSaved([curves |-> curves, qlist |-> qlist], curves_info)
    IN  /\ curves' = st.curves
        /\ qlist' = st.qlist
        /\ ev' = Event("set_widget_state",
                       <<Sig("graph.update_labels_and_visibilities",
                             VisibilityStates(st.curves, Rows(st.curves)))>>, "none")
        /\ UNCHANGED selected

\* ------------------------------------------- the collection with a reference
\* Settings.add_gain_value
add_gain_value == 0

InitRef ==
    /\ curves = <<>>
    /\ qlist = <<>>
    /\ selected = <<>>
    /\ ev = NoEvent
    /\ pastes = 0
    /\ ui = InitialButtons
    /\ importer = NoImporter

\* the same curve is on the clipboard at every import
ImportSame ==
    /\ Len(curves) < MaxRefCurves
    /\ \E data \in {0, 1} : ImportSingleCurve(data)
    /\ UNCHANGED <<pastes, ui, importer>>

NextRef ==
    \/ \E i \in Rows(curves) : ClickRow(i) /\ UNCHANGED <<pastes, ui, importer>>
    \/ \E i \in Rows(curves) : CtrlClickRow(i) /\ UNCHANGED <<pastes, ui, importer>>
    \/ ImportSame
    \/ /\ Len(curves) < MaxRefCurves
       /\ \E v \in BOOLEAN : set_widget_state(<<[visible |-> v, identification |-> NoToken,
                                                   xy |-> NewCurve(1).xy]>>)
       /\ UNCHANGED <<pastes, ui, importer>>
    \/ \E graph_reports \in BOOLEAN : RemoveCurvesShown(graph_reports) /\ UNCHANGED <<pastes, importer>>
    \/ move_up_1 /\ UNCHANGED <<pastes, ui, importer>>
    \/ move_to_top /\ UNCHANGED <<pastes, ui, importer>>
    \/ hide_curves /\ UNCHANGED <<pastes, ui, importer>>
    \/ show_curves /\ UNCHANGED <<pastes, ui, importer>>
    \/ /\ \/ Len(selected) = 1
          \/ \A i \in Range(selected) : Len(At(curves, i).suffixes) < MaxSuffixes
       /\ \E ok \in BOOLEAN : rename_curve_clicked(ok, "x")
       /\ UNCHANGED <<pastes, ui, importer>>
    \/ /\ \/ ui.set_reference_checked
          \/ \A i \in Range(selected) : Len(At(curves, i).suffixes) < MaxSuffixes
       /\ ClickSetReference
       /\ UNCHANGED <<pastes, importer>>
    \/ /\ Len(curves) + Len(selected) <= MaxRefCurves
       /\ \A i \in Range(selected) : Len(At(curves, i).suffixes) < MaxSuffixes
       /\ ProcessingAddGain(add_gain_value)
       /\ UNCHANGED <<pastes, ui, importer>>

SpecRef == InitRef /\ [][NextRef]_vars

\* ------------------------------------------------------------ AutoImporter
\* how many AutoImporter threads the user starts
MaxThreads == 2

\* how many times the user copies something new to the clipboard
MaxPastes == 2

\* AutoImporter(self) followed by start(): run() is about to test its loop condition
NewThread == [pc |-> "while", interrupted |-> FALSE,
              original |-> [id |-> 0, kind |-> "text"], cb_data |-> [id |-> 0, kind |-> "text"]]

\* the loop of run() goes on for ever
NeverInterrupted(th) == FALSE

\* QThread.isInterruptionRequested()
isInterruptionRequested(th) == th.interrupted

\* the user copies something that was not on the clipboard before: a curve, text
\* that is no curve, or something Curve() cannot take
CopyToClipboard ==
    /\ pastes < MaxPastes
    /\ \E kind \in {"curve", "text", "bad"} :
          importer' = [importer EXCEPT !.clipboard = [id |-> pastes + 1, kind |-> kind]]
    /\ pastes' = pastes + 1
    /\ UNCHANGED <<curves, qlist, selected, ev, ui>>

\* _auto_importer_status_toggle(checked): the user clicks "Auto import".
\* self.auto_importer is the thread made last.
auto_importer_status_toggle ==
    LET checked == ~importer.checked
        n == Len(importer.threads)
    IN  /\ checked => n < MaxThreads
        /\ importer' =
              IF checked
              THEN [importer EXCEPT !.checked = TRUE, !.threads = Append(@, NewThread)]
              ELSE [importer EXCEPT !.checked = FALSE, !.threads[n].interrupted = TRUE]
        /\ ev' = Event("_auto_importer_status_toggle", <<>>, "none")
        /\ UNCHANGED <<curves, qlist, selected, pastes, ui>>

\* while not self.isInterruptionRequested(): run() returns, or enters
\* pyperclip.waitForNewPaste(1), which first reads the clipboard
LoopTest(t) ==
    /\ importer.threads[t].pc = "while"
    /\ importer' =
          IF isInterruptionRequested(importer.threads[t])
          THEN [importer EXCEPT !.threads[t].pc = "finished"]
          ELSE [importer EXCEPT !.threads[t].pc = "waitForNewPaste",
                                !.threads[t].original = importer.clipboard]
    /\ UNCHANGED <<curves, qlist, selected, ev, pastes, ui>>

\* waitForNewPaste(1) ends: with the new text when the clipboard has changed, with
\* PyperclipTimeoutException (except: pass) when it has not
WaitForNewPaste(t) ==
    /\ importer.threads[t].pc = "waitForNewPaste"
    /\ importer' =
          IF importer.clipboard # importer.threads[t].original
          THEN [importer EXCEPT !.threads[t].pc = "Curve",
                                !.threads[t].original = NewThread.original,
                                !.threads[t].cb_data = importer.clipboard]
          ELSE [importer EXCEPT !.threads[t].pc = "while",
                                !.threads[t].original = NewThread.original]
    /\ UNCHANGED <<curves, qlist, selected, ev, pastes, ui>>

\* the emit was connected straight to the slot: import_single_curve runs in run()
signal_new_import_direct(st, curve) ==
    LET r == ImportCurve(st.curves, st.qlist, curve)
    IN  [st EXCEPT !.curves = r.curves, !.qlist = r.qlist, !.selected = r.selected]

\* self.signal_new_import.emit(new_curve) from run(): the receiver lives in the
\* GUI thread, so the call to import_single_curve is queued for its event loop
signal_new_import_emit(st, curve) == [st EXCEPT !.queue = Append(st.queue, curve)]

\* new_curve = Curve(cb_data); if new_curve.is_curve(): emit; an Exception is
\* logged with logger.warning and the loop goes on
ParseAndEmit(t) ==
    LET th == importer.threads[t]
        st0 == [curves |-> curves, qlist |-> qlist, selected |-> selected,
                queue |-> importer.queue]
        st == IF th.cb_data.kind = "curve"
              THEN signal_new_import_emit(st0, NewCurve(th.cb_data.id))
              ELSE st0
    IN  /\ th.pc = "Curve"
        /\ curves' = st.curves
        /\ qlist' = st.qlist
        /\ selected' = st.selected
        /\ importer' = [importer EXCEPT
                           !.threads[t].pc = "while",
                           !.threads[t].cb_data = NewThread.cb_data,
                           !.queue = st.queue,
                           !.log = IF th.cb_data.kind = "bad" THEN @ + 1 ELSE @]
        /\ UNCHANGED <<ev, pastes, ui>>

\* the GUI thread's event loop delivers a queued signal_new_import:
\* import_single_curve(curve) with a curve for which is_curve() holds
HandleNewImport ==
    /\ importer.queue # <<>>
    /\ LET r == ImportCurve(curves, qlist, Head(importer.queue))
       IN  /\ curves' = r.curves
           /\ qlist' = r.qlist
           /\ selected' = r.selected
    /\ ev' = Event("import_single_curve", <<good_beep>>, "none")
    /\ importer' = [importer EXCEPT !.queue = Tail(@)]
    /\ UNCHANGED <<pastes, ui>>

InitWatch ==
    /\ curves = <<>>
    /\ qlist = <<>>
    /\ selected = <<>>
    /\ ev = NoEvent
    /\ pastes = 0
    /\ ui = InitialButtons
    /\ importer = NoImporter

ThreadStep(t) ==
    /\ t \in DOMAIN importer.threads
    /\ LoopTest(t) \/ WaitForNewPaste(t) \/ ParseAndEmit(t)

NextWatch ==
    \/ CopyToClipboard
    \/ auto_importer_status_toggle
    \/ \E t \in DOMAIN importer.threads : LoopTest(t)
    \/ \E t \in DOMAIN importer.threads : WaitForNewPaste(t)
    \/ \E t \in DOMAIN importer.threads : ParseAndEmit(t)
    \/ HandleNewImport
    \/ \E i \in Rows(curves) : ClickRow(i) /\ UNCHANGED <<pastes, ui, importer>>
    \/ RemoveCurves /\ UNCHANGED <<pastes, ui, importer>>

SpecWatch == InitWatch /\ [][NextWatch]_vars

\* the watcher threads with the user at the clipboard and the "Auto import"
\* button only
NextStop ==
    \/ CopyToClipboard
    \/ auto_importer_status_toggle
    \/ \E t \in DOMAIN importer.threads : LoopTest(t)
    \/ \E t \in DOMAIN importer.threads : WaitForNewPaste(t)
    \/ \E t \in DOMAIN importer.threads : ParseAndEmit(t)
    \/ HandleNewImport

\* every started thread gets processor time again and again, and every poll of
\* the clipboard returns or times out
SpecWatchFair ==
    InitWatch /\ [][NextStop]_vars /\ \A t \in 1..MaxThreads : WF_vars(ThreadStep(t))

\* --------------------------------------------------------- table import
\* how many rows or columns of curves a table holds at most
MaxRows == 2

RECURSIVE BoolSeqs(_)
BoolSeqs(n) ==
    IF n = 0 THEN {<<>>}
    ELSE BoolSeqs(n - 1) \cup {Append(s, b) : s \in {q \in BoolSeqs(n - 1) : Len(q) = n - 1},
                                              b \in BOOLEAN}

\* one axis of the DataFrame that pd.read_csv returns: whether its labels pass
\* check_if_sorted_and_valid and astype(float), and for each of its lines whether
\* the values along it make a valid curve
Sides(label) == [label : {label}, freq_ok : BOOLEAN, curves_ok : BoolSeqs(MaxRows)]

\* numeric: whether astype(float) takes every cell
Frames == [index : Sides("row"), columns : Sides("col"), numeric : BOOLEAN]

\* df.transpose()
transpose(df) == [df EXCEPT !.index = df.columns, !.columns = df.index]

\* what pd.read_csv does with the text under the settings given: a DataFrame, one
\* of the exceptions the handler names, or another one (ParserError for a line
\* with too many fields)
ReadOutcomes == {"DataFrame", "IndexError", "EmptyDataError", "TypeError", "ParserError"}

\* the values of the import form
ImportSettings ==
    [no_header : 0..1, no_index : 0..1, layout_type : 0..1,
     delimiter : {","}, decimal_separator : {".", ","}]

table_import_busy == Sig("signal_table_import_busy", <<>>)

table_import_fail == Sig("signal_table_import_fail", <<>>)

table_import_successful == Sig("signal_table_import_successful", <<>>)

\* for name, values in df.iterrows(): Curve, interpolation, set_name_base,
\* _add_single_curve(None, curve), which raises ValueError for an invalid curve.
\* st is [curves, qlist, out, raised]; k is the row to add next.
RECURSIVE AddRows(_, _, _)
AddRows(st, df, k) ==
    IF k > Len(df.index.curves_ok) THEN st
    ELSE IF ~df.index.curves_ok[k] THEN [st EXCEPT !.raised = "ValueError"]
    ELSE LET curve == set_name_base(IF import_ppo > 0
                                    THEN Interpolated(NewCurve(k), import_ppo)
                                    ELSE NewCurve(k),
                                    df.index.label \o Decimal(k))
             r == add_single_curve(st.curves, st.qlist, -1, curve)
         IN  AddRows([st EXCEPT !.curves = r.curves, !.qlist = r.qlist], df, k + 1)

\* _import_table_requested from "# ---- transpose" on, with the DataFrame read
ImportFrame(st, import_settings, frame) ==
    LET df == IF import_settings.layout_type = 1 THEN transpose(frame) ELSE frame
        failed == [st EXCEPT !.out = Append(st.out, table_import_fail)]
    IN  IF ~df.columns.freq_ok THEN failed
        ELSE IF Len(df.index.curves_ok) < 1 THEN failed
        ELSE IF ~df.numeric THEN [failed EXCEPT !.raised = "ValueError"]
        ELSE LET added == AddRows(st, df, 1)
             IN  IF added.raised # "none" THEN added
                 ELSE [added EXCEPT !.out = Append(added.out, table_import_successful)]

\* _import_table_requested(source, import_settings) up to read_csv.  file_chosen:
\* the file dialog returned an existing file.
import_table_requested(st0, source, file_chosen, import_settings, read, frame) ==
    IF source = "file" /\ ~file_chosen THEN st0
    ELSE LET st == [st0 EXCEPT !.out = Append(st0.out, table_import_busy)]
             failed == [st EXCEPT !.out = Append(st.out, table_import_fail)]
         IN  IF read = "IndexError" THEN [failed EXCEPT !.raised = "IndexError"]
             ELSE IF read \in {"EmptyDataError", "TypeError"} THEN failed
             ELSE IF read # "DataFrame" THEN [st EXCEPT !.raised = read]
             ELSE ImportFrame(st, import_settings, frame)

\* the validations of ImportDialog._import_requested
SettingsRejected(vals) ==
    \/ vals.decimal_separator = vals.delimiter
    \/ vals.layout_type = 0 /\ vals.no_header = 0
    \/ vals.layout_type = 1 /\ vals.no_index = 0

\* the result st of the request becomes the next state
TableImported(st) ==
    /\ curves' = st.curves
    /\ qlist' = st.qlist
    /\ ev' = Event("_import_table_requested", st.out, st.raised)
    /\ UNCHANGED <<selected, pastes, ui, importer>>

\* ImportDialog._import_requested(source, user_form): "Open file.." or "Read
\* clipboard" is clicked.  An exception of the slot _import_table_requested is
\* reported at the emit.
ImportRequested(source) ==
    /\ Len(curves) + MaxRows <= MaxCurves
    /\ LET st0 == [curves |-> curves, qlist |-> qlist, out |-> <<>>, raised |-> "none"]
       IN  \E vals \in ImportSettings :
              IF SettingsRejected(vals)
              THEN /\ ev' = Event("_import_requested", <<>>, "ValueError")
                   /\ UNCHANGED <<curves, qlist, selected, pastes, ui, importer>>
              ELSE \E file_chosen \in {b \in BOOLEAN : source = "file" \/ b},
                      read \in ReadOutcomes :
                      IF read # "DataFrame"
                      THEN TableImported(import_table_requested(
                               st0, source, file_chosen, vals, read, <<>>))
                      ELSE \E frame \in Frames :
                              TableImported(import_table_requested(
                                  st0, source, file_chosen, vals, read, frame))

InitTable ==
    /\ curves = <<>>
    /\ qlist = <<>>
    /\ selected = <<>>
    /\ ev = NoEvent
    /\ pastes = 0
    /\ ui = InitialButtons
    /\ importer = NoImporter

NextTable ==
    \/ ImportRequested("file")
    \/ ImportRequested("clipboard")
    \/ \E i \in Rows(curves) : ClickRow(i) /\ UNCHANGED <<pastes, ui, importer>>
    \/ RemoveCurves /\ UNCHANGED <<pastes, ui, importer>>

SpecTable == InitTable /\ [][NextTable]_vars

\* ------------------------------------------------- import from the clipboard
\* every clipboard text is taken for a curve
ClipboardAlwaysCurve(clip) == <<NewCurve(clip.id)>>

\* _get_curve_from_clipboard(): the curve, or <<>> for None when is_curve() fails
get_curve_from_clipboard(clip) ==
    IF clip.kind = "curve" THEN <<NewCurve(clip.id)>> ELSE <<>>

\* import_single_curve() from the "Import curve" button, the clipboard being what
\* the user copied last; text that Curve() cannot take raises inside Curve()
ImportFromClipboard ==
    /\ Len(curves) < MaxCurves
    /\ IF importer.clipboard.kind = "bad"
       THEN /\ ev' = Event("import_single_curve", <<>>, "Exception")
            /\ UNCHANGED <<curves, qlist, selected>>
       ELSE LET clipboard_curve == get_curve_from_clipboard(importer.clipboard)
            IN  IF clipboard_curve = <<>>
                THEN /\ ev' = Event("import_single_curve", <<bad_beep>>, "none")
                     /\ UNCHANGED <<curves, qlist, selected>>
                ELSE LET r == ImportCurve(curves, qlist, clipboard_curve[1])
                     IN  /\ curves' = r.curves
                         /\ qlist' = r.qlist
                         /\ selected' = r.selected
                         /\ ev' = Event("import_single_curve", <<good_beep>>, "none")
    /\ UNCHANGED <<pastes, ui, importer>>

InitClip ==
    /\ curves = <<>>
    /\ qlist = <<>>
    /\ selected = <<>>
    /\ ev = NoEvent
    /\ pastes = 0
    /\ ui = InitialButtons
    /\ importer = NoImporter

NextClip ==
    \/ CopyToClipboard
    \/ ImportFromClipboard
    \/ \E i \in Rows(curves) : ClickRow(i) /\ UNCHANGED <<pastes, ui, importer>>
    \/ \E i \in Rows(curves) : CtrlClickRow(i) /\ UNCHANGED <<pastes, ui, importer>>
    \/ RemoveCurves /\ UNCHANGED <<pastes, ui, importer>>

SpecClip == InitClip /\ [][NextClip]_vars

\* ------------------------------------------------- the suffix of _add_gain
\* the largest gain looked at, in hundredths of a dB
MaxGain == 300

\* desc_text is computed for the gain that was drawn
DescribeGain ==
    /\ ev.op = "gain_value"
    /\ ev' = Event("desc_text", <<ev.out[1], GainText(ev.out[1])>>, "none")
    /\ UNCHANGED <<curves, qlist, selected, pastes, ui, importer>>

InitGain ==
    /\ curves = <<>>
    /\ qlist = <<>>
    /\ selected = <<>>
    /\ \E gain_value \in (-MaxGain)..MaxGain : ev = Event("gain_value", <<gain_value>>, "none")
    /\ pastes = 0
    /\ ui = InitialButtons
    /\ importer = NoImporter

NextGain == DescribeGain

SpecGain == InitGain /\ [][NextGain]_vars

\* ------------------------------------------------ find_longest_match_in_name
\* A name is the sequence of its characters, each a string of length one.
Largest(S) == CHOOSE x \in S : \A y \in S : y <= x

Smallest(S) == CHOOSE x \in S : \A y \in S : x <= y

\* string[a:a + size]
Slice(s, a, size) == SubSeq(s, a + 1, a + size)

\* a[i:i + k] == b[j:j + k], both inside their strings
IsBlock(a, b, i, j, k) ==
    i + k <= Len(a) /\ j + k <= Len(b) /\ Slice(a, i, k) = Slice(b, j, k)

\* The whole of a is taken for the block, whatever b holds.
whole_of_first(a, b) == [a |-> 0, b |-> 0, size |-> Len(a)]

\* SequenceMatcher(None, a, b).find_longest_match(0, len(a), 0, len(b)): the
\* longest block, of those the one starting earliest in a, of those the one
\* starting earliest in b
find_longest_match(a, b) ==
    LET size == Largest({k \in 0..Len(a) :
                    \E i \in 0..Len(a), j \in 0..Len(b) : IsBlock(a, b, i, j, k)})
        i == Smallest({x \in 0..Len(a) : \E j \in 0..Len(b) : IsBlock(a, b, x, j, size)})
        j == Smallest({y \in 0..Len(b) : IsBlock(a, b, i, y, size)})
    IN  [a |-> i, b |-> j, size |-> size]

\* for i in range(0, len(names)): for j in range(i+1, len(names)), in order
RECURSIVE PairsFrom(_, _, _)
PairsFrom(n, i, j) ==
    IF i >= n THEN <<>>
    ELSE IF j >= n THEN PairsFrom(n, i + 1, i + 2)
    ELSE <<<<i, j>>>> \o PairsFrom(n, i, j + 1)

Pairs(n) == PairsFrom(n, 0, 1)

\* matching_substring = string1[match.a:match.a + match.size]
matching_substring(names, pair) ==
    LET string1 == At(names, pair[1])
        match == find_longest_match(string1, At(names, pair[2]))
    IN  Slice(string1, match.a, match.size)

\* substring_counts[key] = 1 for a new key, += 1 for a known one; the dict
\* keeps its keys in the order of their insertion
Counted(counts, key) ==
    IF \E k \in 1..Len(counts) : counts[k].key = key
    THEN [k \in 1..Len(counts) |->
              IF counts[k].key = key THEN [counts[k] EXCEPT !.count = @ + 1] ELSE counts[k]]
    ELSE Append(counts, [key |-> key, count |-> 1])

RECURSIVE CountPairs(_, _)
CountPairs(names, pairs) ==
    IF Len(pairs) = 0 THEN <<>>
    ELSE Counted(CountPairs(names, SubSeq(pairs, 1, Len(pairs) - 1)),
                 matching_substring(names, pairs[Len(pairs)]))

substring_counts(names) == CountPairs(names, Pairs(Len(names)))

\* The last key with the highest count instead of the first.
LastMaxKey(counts) ==
    counts[Largest({k \in 1..Len(counts) :
                        \A m \in 1..Len(counts) : counts[m].count <= counts[k].count})].key

\* max(substring_counts, key=substring_counts.get): the first key, in the
\* order of the dict, that has the highest count
max_occurring_key(counts) ==
    counts[Smallest({k \in 1..Len(counts) :
                        \A m \in 1..Len(counts) : counts[m].count <= counts[k].count})].key

\* str.strip(char): the character is removed from both ends as often as it is there
RECURSIVE strip(_, _)
strip(s, char) ==
    IF Len(s) > 0 /\ s[1] = char THEN strip(Tail(s), char)
    ELSE IF Len(s) > 0 /\ s[Len(s)] = char THEN strip(SubSeq(s, 1, Len(s) - 1), char)
    ELSE s

\* Only blanks are stripped.
StripBlanks(s) == strip(s, " ")

\* for char in " - - ": max_occurring_key = max_occurring_key.strip(char)
StripSeparators(s) == strip(strip(strip(strip(strip(s, " "), "-"), " "), "-"), " ")

\* find_longest_match_in_name(names) for two names or more
find_longest_match_in_name(names) ==
    StripSeparators(max_occurring_key(substring_counts(names)))

\* ------------------------------------- find_longest_match_in_name on its own
\* the longest name and the longest list looked at
MaxNameLen == 2

MaxNames == 3

Alphabet == {"a", "b"}

ShortNames == UNION {[1..k -> Alphabet] : k \in 0..MaxNameLen}

\* "Speaker A - Left", "Speaker A - Right", "Speaker A - Center"
SpeakerNames ==
    <<<<"S", "p", "e", "a", "k", "e", "r", " ", "A", " ", "-", " ", "L", "e", "f", "t">>,
      <<"S", "p", "e", "a", "k", "e", "r", " ", "A", " ", "-", " ", "R", "i", "g", "h", "t">>,
      <<"S", "p", "e", "a", "k", "e", "r", " ", "A", " ", "-", " ", "C", "e", "n", "t", "e", "r">>>>

NameLists == UNION {[1..n -> ShortNames] : n \in 2..MaxNames} \cup {SpeakerNames}

\* the function is called with the list that was drawn; the key before the
\* stripping and the substring of each pair, in the order of the loops, are
\* kept next to the value returned
LongestMatchCalled ==
    /\ ev.op = "names"
    /\ ev' = Event("find_longest_match_in_name",
                   <<ev.out[1], max_occurring_key(substring_counts(ev.out[1])),
                     find_longest_match_in_name(ev.out[1]),
                     [k \in 1..Len(Pairs(Len(ev.out[1]))) |->
                          matching_substring(ev.out[1], Pairs(Len(ev.out[1]))[k])]>>,
                   "none")
    /\ UNCHANGED <<curves, qlist, selected, pastes, ui, importer>>

InitNames ==
    /\ curves = <<>>
    /\ qlist = <<>>
    /\ selected = <<>>
    /\ \E names \in NameLists : ev = Event("names", <<names>>, "none")
    /\ pastes = 0
    /\ ui = InitialButtons
    /\ importer = NoImporter

NextNames == LongestMatchCalled

SpecNames == InitNames /\ [][NextNames]_vars

\* ------------------------------------------------- the processing functions
\* "".join(chars)
RECURSIVE Text(_)
Text(chars) == IF Len(chars) = 0 THEN "" ELSE chars[1] \o Text(Tail(chars))

\* the characters of the names the statistics are taken of
Spell ==
    [name \in {"", "sum", "difference"} |->
        CASE name = "" -> <<>>
          [] name = "sum" -> <<"s", "u", "m">>
          [] name = "difference" -> <<"d", "i", "f", "f", "e", "r", "e", "n", "c", "e">>]

\* Curve.get_base_name_and_suffixes: the full name without the prefix
get_base_name_and_suffixes(c) ==
    JoinSpace(SelectSeq(<<c.base, JoinComma(c.suffixes)>>, LAMBDA p : p # ""))

\* self.get_selected_curves()
get_selected_curves == [k \in 1..Len(selected) |-> At(curves, selected[k])]

\* representative_base_name = find_longest_match_in_name(
\*     [curve.get_base_name_and_suffixes() for curve in selected_curves])
representative_base_name ==
    Text(find_longest_match_in_name(
             [k \in 1..Len(selected) |->
                  Spell[get_base_name_and_suffixes(get_selected_curves[k])]]))

\* the names of all selected curves can be spelled
Spelled ==
    \A k \in 1..Len(selected) :
        get_base_name_and_suffixes(get_selected_curves[k]) \in DOMAIN Spell

\* Settings
outlier_fence_iqr == 100

processing_interpolation_ppo == 96

smoothing_bandwidth == 6

smoothing_resolution_ppo == 96

\* the curves the statistics engine returns, told apart by their data
EngineCurve(kind) ==
    NewCurve(CASE kind = "mean" -> 11 [] kind = "median" -> 12 [] kind = "sum" -> 13
               [] kind = "difference" -> 14 [] kind = "lower_fence" -> 15
               [] kind = "upper_fence" -> 16)

\* a processing function raised: nothing is returned
Raised(error) ==
    [raised |-> error, to_insert |-> <<>>, text |-> <<>>, out |-> <<>>,
     curves |-> curves, qlist |-> qlist, selected |-> selected]

\* {"to_insert": ..., "line2d_kwargs": ...} with the collection as the function left it
ToInsert(to_insert, cs, ql, sel, out) ==
    [raised |-> "none", to_insert |-> to_insert, text |-> <<>>, out |-> out,
     curves |-> cs, qlist |-> ql, selected |-> sel]

\* {"title": ..., "result_text": ...}
ResultText(title, rows) ==
    [raised |-> "none", to_insert |-> <<>>, text |-> <<title, rows>>, out |-> <<>>,
     curves |-> curves, qlist |-> qlist, selected |-> selected]

\* ---- _add_gain as a processing function of the dialog
AddGainResult(gain_value) ==
    IF Len(selected) < 1 THEN Raised("RuntimeError")
    ELSE LET res == add_gain(gain_value)
         IN  ToInsert(<<[at |-> res.at, curves |-> res.to_insert]>>,
                      [k \in 1..Len(curves) |->
                           IF \E m \in 1..Len(selected) : selected[m] = k - 1
                           THEN res.originals[CHOOSE m \in 1..Len(selected) :
                                                  selected[m] = k - 1]
                           ELSE curves[k]],
                      qlist, selected, <<>>)

\* ---- _mean_and_median_analysis
mean_and_median_analysis(mean_selected, median_selected) ==
    LET length_curves == Len(selected)
    IN  IF length_curves < 2 THEN Raised("ValueError")
        ELSE LET name == representative_base_name
                 curve_mean ==
                     add_name_suffix(set_name_base(EngineCurve("mean"), name),
                                     "mean, " \o Decimal(length_curves) \o " curves")
                 curve_median ==
                     add_name_suffix(set_name_base(EngineCurve("median"), name),
                                     "median, " \o Decimal(length_curves) \o " curves")
             IN  ToInsert(<<[at |-> 0,
                             curves |-> (IF mean_selected THEN <<curve_mean>> ELSE <<>>)
                                        \o (IF median_selected THEN <<curve_median>>
                                            ELSE <<>>)]>>,
                          curves, qlist, selected, <<>>)

\* ---- _curve_summation
curve_summation(sum_selected, diff_selected) ==
    IF Len(selected) # 2 THEN Raised("RuntimeError")
    ELSE LET name == representative_base_name
             curves_sum == add_name_suffix(set_name_base(EngineCurve("sum"), name), "sum")
             curves_diff ==
                 add_name_suffix(set_name_base(EngineCurve("difference"), name),
                                 "difference")
         IN  ToInsert(<<[at |-> 0,
                         curves |-> (IF sum_selected THEN <<curves_sum>> ELSE <<>>)
                                    \o (IF diff_selected THEN <<curves_diff>> ELSE <<>>)]>>,
                      curves, qlist, selected, <<>>)

\* ---- _outlier_detection
\* f"{value:.1f}" of a value given in tenths
OneDecimal(n) == Decimal(n \div 10) \o "." \o DigitChar(n % 10)

\* the rows still selected after the rows of indexes were taken from the list
SelectedAfterRemoval(sel, indexes) ==
    LET kept == SelectSeq(sel, LAMBDA i : i \notin Range(indexes))
    IN  [k \in 1..Len(kept) |->
             kept[k] - Cardinality({i \in Range(indexes) : i < kept[k]})]

\* Two curves are taken to be enough.
TwoCurvesNeeded(length_curves) == length_curves < 2

\* if length_curves < 3: raise ValueError
ThreeCurvesNeeded(length_curves) == length_curves < 3

\* {i: curve.get_xy() for i, curve in selected_curves.items()}
SelectedXY == [k \in 1..Len(selected) |-> <<selected[k], At(curves, selected[k]).xy>>]

\* signal_tools.iqr_analysis: of the curves handed over, those with a point
\* outside its fence (flagged, by key) are reported as indexes into the order
\* in which they were handed over
iqr_analysis(curves_xy, flagged) ==
    SelectSeq(RangeList(Len(curves_xy)), LAMBDA p : At(curves_xy, p)[1] \in flagged)

\* what the function read and was given: the action set in the dialog, the
\* keys handed to iqr_analysis and the indexes it returned
OutlierCall(outlier_action, outlier_indexes) ==
    <<Sig("settings.outlier_action", <<outlier_action>>),
      Sig("iqr_analysis", <<selected, outlier_indexes>>)>>

\* outlier_indexes is what iqr_analysis reports for the dict of selected curves
outlier_detection(outlier_action, outlier_indexes) ==
    LET length_curves == Len(selected)
    IN  IF ThreeCurvesNeeded(length_curves) THEN Raised("ValueError")
        ELSE LET name == representative_base_name
                 count == Decimal(length_curves) \o " curves"
                 curve_median ==
                     add_name_suffix(set_name_base(EngineCurve("median"), name),
                                     "median, " \o count)
                 lower_fence ==
                     add_name_suffix(set_name_base(EngineCurve("lower_fence"), name),
                                     "-" \o OneDecimal(outlier_fence_iqr) \o "xIQR, " \o count)
                 upper_fence ==
                     add_name_suffix(set_name_base(EngineCurve("upper_fence"), name),
                                     "+" \o OneDecimal(outlier_fence_iqr) \o "xIQR, " \o count)
                 result_curves == <<curve_median, lower_fence, upper_fence>>
                 Noted(text) == [k \in 1..3 |-> add_name_suffix(result_curves[k], text)]
             IN  IF outlier_action = "Hide" /\ Len(outlier_indexes) > 0
                 THEN LET cs == SetVisible(curves, Range(outlier_indexes), FALSE)
                      IN  ToInsert(<<[at |-> 0,
                                      curves |-> Noted("calculated before hiding outliers")]>>,
                                   cs, SetThin(qlist, Range(outlier_indexes), TRUE), selected,
                                   OutlierCall(outlier_action, outlier_indexes)
                                   \o <<Sig("graph.update_labels_and_visibilities",
                                            VisibilityStates(cs, Range(outlier_indexes)))>>)
                 ELSE IF outlier_action = "Remove" /\ Len(outlier_indexes) > 0
                 THEN LET r == remove_curves(curves, qlist, outlier_indexes)
                      IN  ToInsert(<<[at |-> 0,
                                      curves |-> Noted("calculated before removing outliers")]>>,
                                   r.curves, r.qlist,
                                   SelectedAfterRemoval(selected, outlier_indexes),
                                   OutlierCall(outlier_action, outlier_indexes)
                                   \o <<Sig("signal_remove_curves_request",
                                            outlier_indexes)>>)
                 ELSE ToInsert(<<[at |-> 0, curves |-> result_curves]>>,
                               curves, qlist, selected,
                               OutlierCall(outlier_action, outlier_indexes))

\* ---- _calculate_sensitivity
\* {key: value for ...}: the keys in the order of their first insertion, each
\* with the value written last
RECURSIVE DictOf(_)
DictOf(pairs) ==
    IF Len(pairs) = 0 THEN <<>>
    ELSE LET front == DictOf(SubSeq(pairs, 1, Len(pairs) - 1))
             p == pairs[Len(pairs)]
         IN  IF \E k \in 1..Len(front) : front[k][1] = p[1]
             THEN [k \in 1..Len(front) |-> IF front[k][1] = p[1] THEN p ELSE front[k]]
             ELSE Append(front, p)

calculate_sensitivity ==
    IF Len(selected) < 1 THEN Raised("RuntimeError")
    ELSE ResultText("Average values",
                    DictOf([k \in 1..Len(selected) |->
                                <<get_full_name(get_selected_curves[k]),
                                  get_selected_curves[k].xy>>]))

\* ---- _interpolate_curves and _smoothen_curves
\* signal_tools.Curve(xy) named after the curve it was made from
Derived(curve, xy, suffix) ==
    add_name_suffix([NewCurve(curve.xy.data) EXCEPT !.xy = xy, !.base = curve.base,
                                                     !.suffixes = curve.suffixes], suffix)

\* result_curves[i_curve + 1] = new_curve, for each selected curve in turn
ResultsAtRow(new_curves) ==
    DictOf([k \in 1..Len(selected) |-> <<selected[k], new_curves[k]>>])

ResultsBelow(new_curves) ==
    DictOf([k \in 1..Len(selected) |-> <<selected[k] + 1, new_curves[k]>>])

\* the dict as the entries to insert
Entries(dict) == [k \in 1..Len(dict) |-> [at |-> dict[k][1], curves |-> <<dict[k][2]>>]]

interpolate_curves ==
    LET new_curve(curve) ==
            Derived(curve, [curve.xy EXCEPT !.ppo = processing_interpolation_ppo],
                    "interpolated to " \o Decimal(processing_interpolation_ppo) \o " ppo")
    IN  ToInsert(Entries(ResultsBelow([k \in 1..Len(selected) |->
                                             new_curve(get_selected_curves[k])])),
                 curves, qlist, selected, <<>>)

\* Whatever is not one of the first three types is smoothed as Gaussian.
smoothing_types_or_else ==
    {"Butterworth 8th, log spaced", "Butterworth 4th, log spaced",
     "Rectangular, w/o interpolation", "Gaussian, log spaced", "Median"}

\* the types the if/elif chain knows
smoothing_types ==
    {"Butterworth 8th, log spaced", "Butterworth 4th, log spaced",
     "Rectangular, w/o interpolation", "Gaussian, log spaced"}

smoothen_curves(smoothing_type) ==
    LET new_curve(curve) ==
            Derived(curve,
                    IF smoothing_type = "Rectangular, w/o interpolation"
                    THEN [curve.xy EXCEPT !.bw = smoothing_bandwidth]
                    ELSE [curve.xy EXCEPT !.bw = smoothing_bandwidth,
                                          !.ppo = smoothing_resolution_ppo],
                    "smoothed 1/" \o Decimal(smoothing_bandwidth))
    IN  IF Len(selected) > 0 /\ smoothing_type \notin smoothing_types
        THEN Raised("NotImplementedError")
        ELSE ToInsert(Entries(ResultsBelow([k \in 1..Len(selected) |->
                                             new_curve(get_selected_curves[k])])),
                 curves, qlist, selected, <<>>)

\* ---- _processing_dialog_return
\* sorted(results["to_insert"].items(), reverse=True): highest key first
RECURSIVE SortedByKeyReverse(_)
SortedByKeyReverse(entries) ==
    IF Len(entries) = 0 THEN <<>>
    ELSE LET k == CHOOSE k \in 1..Len(entries) :
                      \A j \in 1..Len(entries) : entries[k].at >= entries[j].at
         IN  <<entries[k]>>
             \o SortedByKeyReverse(SubSeq(entries, 1, k - 1)
                                   \o SubSeq(entries, k + 1, Len(entries)))

\* for curve in reversed(curves): self._add_single_curve(i_to_insert, curve);
\* the selected rows at or below the new row move down with it
RECURSIVE InsertTracked(_, _, _)
InsertTracked(st, i_to_insert, cs) ==
    IF Len(cs) = 0 THEN st
    ELSE LET r == add_single_curve(st.curves, st.qlist, i_to_insert, cs[Len(cs)])
         IN  InsertTracked([curves |-> r.curves, qlist |-> r.qlist,
                            selected |-> [k \in 1..Len(st.selected) |->
                                              IF st.selected[k] >= r.index
                                              THEN st.selected[k] + 1
                                              ELSE st.selected[k]]],
                           i_to_insert, SubSeq(cs, 1, Len(cs) - 1))

RECURSIVE InsertEntries(_, _)
InsertEntries(st, entries) ==
    IF Len(entries) = 0 THEN st
    ELSE InsertEntries(InsertTracked(st, entries[1].at, entries[1].curves), Tail(entries))

\* results = getattr(self, processing_function_name)() and what follows it
processing_dialog_return(processing_function_name, results) ==
    IF results.raised # "none"
    THEN /\ curves' = results.curves
         /\ qlist' = results.qlist
         /\ selected' = results.selected
         /\ ev' = Event(processing_function_name, results.out, results.raised)
    ELSE LET st == InsertEntries([curves |-> results.curves, qlist |-> results.qlist,
                                  selected |-> results.selected],
                                 SortedByKeyReverse(results.to_insert))
             to_beep == Len(results.to_insert) > 0 \/ Len(results.text) > 0
         IN  /\ curves' = st.curves
             /\ qlist' = st.qlist
             /\ selected' = st.selected
             /\ ev' = Event(processing_function_name,
                            results.out
                            \o (IF Len(results.text) > 0
                                THEN <<Sig("ResultTextBox.show", results.text)>> ELSE <<>>)
                            \o (IF to_beep THEN <<good_beep>> ELSE <<>>),
                            "none")

\* ---- _show_best_fits
\* ref_freqs: the frequencies the reference curve is sampled at for the comparison
FitFreqs == <<100, 1000, 10000>>

\* the levels of a curve at ref_freqs, in hundredths of a dB: the data of a
\* curve decides its levels at 100 Hz and at 1000 Hz, a gain shifts them all
Levels(xy) ==
    [k \in 1..Len(FitFreqs) |->
         (CASE k = 1 -> 100 * ((xy.data \div 3) % 3)
            [] k = 2 -> 100 * (xy.data % 3)
            [] OTHER -> 0) + xy.gain]

\* (np.interp(...) - ref_curve_interpolated)**2
ResidualsSquared(ref_curve, curve) ==
    [k \in 1..Len(FitFreqs) |->
         (Levels(curve.xy)[k] - Levels(ref_curve.xy)[k])
         * (Levels(curve.xy)[k] - Levels(ref_curve.xy)[k])]

\* critical_columns = [column for column in df.columns if start <= column < end]
critical_columns(start_freq, end_freq) ==
    {k \in 1..Len(FitFreqs) : FitFreqs[k] >= start_freq /\ FitFreqs[k] < end_freq}

RECURSIVE SumOf(_)
SumOf(s) == IF Len(s) = 0 THEN 0 ELSE s[1] + SumOf(Tail(s))

\* a / b < c / d for positive b and d
Less(x, y) == x.num * y.den < y.num * x.den

\* The rows come out in the opposite order when the ranking was shown just before.
RankedByHistory(rows) ==
    LET Place(k) == Cardinality({j \in 1..Len(rows) :
                        \/ Less(rows[j][2], rows[k][2])
                        \/ /\ ~Less(rows[k][2], rows[j][2])
                           /\ IF ev.op = "_show_best_fits" THEN j > k ELSE j < k}) + 1
    IN  [p \in 1..Len(rows) |-> rows[CHOOSE k \in 1..Len(rows) : Place(k) = p]]

\* df.sort_values(by=[...], ascending=True): rows of equal value keep their order
Ranked(rows) ==
    LET Place(k) == Cardinality({j \in 1..Len(rows) :
                        \/ Less(rows[j][2], rows[k][2])
                        \/ /\ ~Less(rows[k][2], rows[j][2])
                           /\ j < k}) + 1
    IN  [p \in 1..Len(rows) |-> rows[CHOOSE k \in 1..Len(rows) : Place(k) = p]]

\* The normalizer is computed whether the band holds a column or not.
WeighedAlways(n_critical, weight) ==
    [num |-> Len(FitFreqs) + n_critical * (weight - 1), den |-> Len(FitFreqs),
     warned |-> FALSE]

\* weighing_normalizer as a fraction; 1 and a warning when the band holds no column
Weighed(n_critical, weight) ==
    IF n_critical > 0
    THEN [num |-> Len(FitFreqs) + n_critical * (weight - 1), den |-> Len(FitFreqs),
          warned |-> FALSE]
    ELSE [num |-> 1, den |-> 1, warned |-> TRUE]

\* the table of the ranking: one row for each key of residuals_squared, with the
\* unbiased variance of its row of df as a fraction
BestFitRows(ref_curve, normalizer) ==
    LET residuals_squared ==
            DictOf([k \in 1..Len(curves) |->
                        <<get_full_name(curves[k]), ResidualsSquared(ref_curve, curves[k])>>])
    IN  Ranked([k \in 1..Len(residuals_squared) |->
                    <<residuals_squared[k][1],
                      [num |-> SumOf(residuals_squared[k][2]) * normalizer.den,
                       den |-> normalizer.num * (Len(FitFreqs) - 1)]>>])

show_best_fits(start_freq, end_freq, weight) ==
    IF Len(selected) # 1
    THEN [raised |-> "none", to_insert |-> <<>>, text |-> <<>>,
          out |-> <<Sig("QMessageBox.Warning", <<>>)>>,
          curves |-> curves, qlist |-> qlist, selected |-> selected]
    ELSE LET ref_curve == At(curves, selected[1])
             normalizer ==
                 Weighed(Cardinality(critical_columns(start_freq, end_freq)), weight)
         IN  \* weighing_critical = weight / weighing_normalizer
             IF normalizer.num = 0 THEN Raised("ZeroDivisionError")
             ELSE [raised |-> "none", to_insert |-> <<>>,
                   text |-> <<"Best fits", BestFitRows(ref_curve, normalizer)>>,
                   out |-> IF normalizer.warned THEN <<Sig("logger.warning", <<>>)>>
                           ELSE <<>>,
                   curves |-> curves, qlist |-> qlist, selected |-> selected]

\* the settings of the "Best fit" tab as the dialog may set them
CriticalRanges == {<<200, 5000>>, <<50, 20000>>, <<20000, 30000>>}

CriticalWeights == {0, 1, 2}

\* tab "Best fit", Run: _save_and_close writes the settings of the tab, then
\* the function is called
BestFitRun ==
    \E range \in CriticalRanges, weight \in CriticalWeights :
        LET results == show_best_fits(range[1], range[2], weight)
        IN  processing_dialog_return("_show_best_fits",
                [results EXCEPT !.out = <<Sig("settings.update",
                                              <<range[1], range[2], weight>>)>> \o @])

\* the "Processing" button with the tab "Best fit" open
ShowBestFits ==
    /\ ui.processing_enabled
    /\ IF Len(selected) = 0
       THEN /\ ev' = Event("open_processing_dialog", <<bad_beep>>, "none")
            /\ UNCHANGED <<curves, qlist, selected>>
       ELSE BestFitRun

\* ----------------------------------------------- the collection under ranking
InitFit ==
    /\ curves = <<>>
    /\ qlist = <<>>
    /\ selected = <<>>
    /\ ev = NoEvent
    /\ pastes = 0
    /\ ui = InitialButtons
    /\ importer = NoImporter

NextFit ==
    \/ /\ Len(curves) < MaxCurves
       /\ \E data \in {1, 2, 3} : ImportSingleCurve(data)
       /\ UNCHANGED <<pastes, ui, importer>>
    \/ \E i \in Rows(curves) : ClickRow(i) /\ UNCHANGED <<pastes, ui, importer>>
    \/ \E i \in Rows(curves) : CtrlClickRow(i) /\ UNCHANGED <<pastes, ui, importer>>
    \/ RemoveCurves /\ UNCHANGED <<pastes, ui, importer>>
    \/ ShowBestFits /\ UNCHANGED <<pastes, ui, importer>>

SpecFit == InitFit /\ [][NextFit]_vars

\* ------------------------------------------- the collection under processing
\* Settings.add_gain_value as the dialog may set it, in hundredths of a dB
GainValues == {-250, 0, 300}

\* _smoothen_curves with settings.smoothing_type as it was last written
SmoothingRun(smoothing_type) ==
    LET results == smoothen_curves(smoothing_type)
    IN  processing_dialog_return("_smoothen_curves",
            [results EXCEPT !.out = <<Sig("settings.update", <<smoothing_type>>)>> \o @])

\* the "Processing" button: open_processing_dialog, a tab, its widgets, Run
Processing ==
    /\ ui.processing_enabled
    /\ IF Len(selected) = 0
       THEN /\ ev' = Event("open_processing_dialog", <<bad_beep>>, "none")
            /\ UNCHANGED <<curves, qlist, selected>>
       ELSE \/ \E mean_selected, median_selected \in BOOLEAN :
                 /\ Spelled
                 /\ processing_dialog_return("_mean_and_median_analysis",
                        mean_and_median_analysis(mean_selected, median_selected))
            \/ \E sum_selected, diff_selected \in BOOLEAN :
                 /\ Spelled
                 /\ processing_dialog_return("_curve_summation",
                        curve_summation(sum_selected, diff_selected))
            \/ \E outlier_action \in {"None", "Hide", "Remove"},
                  flagged \in SUBSET Range(selected) :
                 /\ Spelled
                 /\ processing_dialog_return("_outlier_detection",
                        outlier_detection(outlier_action,
                                          iqr_analysis(SelectedXY, flagged)))
            \/ \E gain_value \in GainValues :
                 processing_dialog_return("_add_gain", AddGainResult(gain_value))
            \/ processing_dialog_return("_calculate_sensitivity", calculate_sensitivity)
            \/ processing_dialog_return("_interpolate_curves", interpolate_curves)
            \/ BestFitRun
            \/ \E smoothing_type \in {"Butterworth 8th, log spaced",
                                      "Rectangular, w/o interpolation", "Median"} :
                 SmoothingRun(smoothing_type)

InitProc ==
    /\ curves = <<>>
    /\ qlist = <<>>
    /\ selected = <<>>
    /\ ev = NoEvent
    /\ pastes = 0
    /\ ui = InitialButtons
    /\ importer = NoImporter

NextProc ==
    \/ /\ Len(curves) < MaxCurves
       /\ \E data \in {1, 2} : ImportSingleCurve(data)
       /\ UNCHANGED <<pastes, ui, importer>>
    \/ /\ Len(curves) <= MaxCurves
       /\ \E i \in Rows(curves) : ClickRow(i)
       /\ UNCHANGED <<pastes, ui, importer>>
    \/ /\ Len(curves) <= MaxCurves
       /\ \E i \in Rows(curves) : CtrlClickRow(i)
       /\ UNCHANGED <<pastes, ui, importer>>
    \/ /\ Len(curves) <= MaxCurves
       /\ hide_curves
       /\ UNCHANGED <<pastes, ui, importer>>
    \/ /\ Len(curves) <= MaxCurves
       /\ \A i \in Range(selected) : Len(At(curves, i).suffixes) < MaxSuffixes
       /\ Processing
       /\ UNCHANGED <<pastes, ui, importer>>

SpecProc == InitProc /\ [][NextProc]_vars

\* ------------------------------------------------ saving and loading a state
\* collect_curve_info: what is kept of a curve; x and y are its numeric data
collect_curve_info(curve) ==
    [visible |-> curve.visible, identification |-> curve.identification, xy |-> curve.xy]

\* get_widget_state: graph_info, and one entry of lines_info and of curves_info
\* per pair of zip(lines, curves); the graph holds one line per curve
get_widget_state ==
    [graph_info |-> "graph_info",
     lines_info |-> [k \in 1..Len(curves) |-> "line_info"],
     curves_info |-> [k \in 1..Len(curves) |-> collect_curve_info(curves[k])]]

\* zip(lines_info, curves_info) of set_widget_state: as many as the shorter has
ZippedInfo(package) ==
    LET n == IF Len(package.lines_info) < Len(package.curves_info)
             THEN Len(package.lines_info) ELSE Len(package.curves_info)
    IN  [k \in 1..n |-> package.curves_info[k]]

\* save_state_to_file, then the program is started again with that file as
\* infile: main() makes a new window and calls add_state_from_file
SaveAndReopen ==
    LET package == get_widget_state
        st == AddSaved([curves |-> <<>>, qlist |-> <<>>], ZippedInfo(package))
    IN  /\ curves' = st.curves
        /\ qlist' = st.qlist
        /\ selected' = <<>>
        /\ ev' = Event("add_state_from_file",
                       <<Sig("graph.update_labels_and_visibilities",
                             VisibilityStates(st.curves, Rows(st.curves))),
                         good_beep>>, "none")
        /\ ui' = InitialButtons
        /\ UNCHANGED <<pastes, importer>>

\* identifications a state file may hold
Tokens == {NoToken, "token"}

\* the entries a state file may hold
SavedInfos ==
    [visible : BOOLEAN, identification : Tokens, xy : {NewCurve(1).xy}]

\* main() with an infile of up to MaxCurves entries
InitState ==
    \E n \in 0..MaxCurves : \E curves_info \in [1..n -> SavedInfos] :
        LET st == AddSaved([curves |-> <<>>, qlist |-> <<>>], curves_info)
        IN  /\ curves = st.curves
            /\ qlist = st.qlist
            /\ selected = <<>>
            /\ ev = NoEvent
            /\ pastes = 0
            /\ ui = InitialButtons
            /\ importer = NoImporter

NextState ==
    \/ \E i \in Rows(curves) : ClickRow(i) /\ UNCHANGED <<pastes, ui, importer>>
    \/ \E i \in Rows(curves) : CtrlClickRow(i) /\ UNCHANGED <<pastes, ui, importer>>
    \/ /\ Len(curves) < MaxCurves
       /\ ImportSingleCurve(2)
       /\ UNCHANGED <<pastes, ui, importer>>
    \/ hide_curves /\ UNCHANGED <<pastes, ui, importer>>
    \/ show_curves /\ UNCHANGED <<pastes, ui, importer>>
    \/ RemoveCurves /\ UNCHANGED <<pastes, ui, importer>>
    \/ move_to_top /\ UNCHANGED <<pastes, ui, importer>>
    \/ SaveAndReopen

SpecState == InitState /\ [][NextState]_vars

\* ------------------------------- the toggle on a collection of any flags
\* reference_curve_status_toggle reads the flags of all curves and has a
\* branch for more than one reference; the collections it is applied to here
\* are of up to MaxCurves curves, any of them marked as reference
Flagged(cs, flags) == [k \in 1..Len(cs) |-> IF flags[k] THEN MarkReference(cs[k]) ELSE cs[k]]

InitToggle ==
    \E n \in 1..MaxCurves : \E flags \in [1..n -> BOOLEAN], checked \in BOOLEAN :
        LET st == AddSaved([curves |-> <<>>, qlist |-> <<>>], SavedState(n))
            cs == Flagged(st.curves, flags)
        IN  /\ curves = cs
            /\ qlist = [k \in 1..n |-> ListItem(cs[k])]
            /\ selected = <<>>
            /\ ev = NoEvent
            /\ pastes = 0
            /\ ui = [set_reference_checked |-> checked, processing_enabled |-> ~checked]
            /\ importer = NoImporter

NextToggle ==
    \/ \E i \in Rows(curves) : ClickRow(i) /\ UNCHANGED <<pastes, ui, importer>>
    \/ \E i \in Rows(curves) : CtrlClickRow(i) /\ UNCHANGED <<pastes, ui, importer>>
    \/ /\ \/ ui.set_reference_checked
          \/ Len(selected) # 1
          \/ \A i \in Range(selected) : Len(At(curves, i).suffixes) < MaxSuffixes
       /\ ClickSetReference
       /\ UNCHANGED <<pastes, importer>>

SpecToggle == InitToggle /\ [][NextToggle]_vars

\* ------------------------------------------ the suffixes of renamed curves
\* the most suffixes a curve is given here
MaxNameSuffixes == 3

\* what the user types into "Add suffix to multiple names"
SuffixTexts == {"reference", "x"}

\* two curves of a saved state; the user selects, renames and sets the reference
InitSuffix ==
    LET st == AddSaved([curves |-> <<>>, qlist |-> <<>>], SavedState(2))
    IN  /\ curves = st.curves
        /\ qlist = st.qlist
        /\ selected = <<>>
        /\ ev = NoEvent
        /\ pastes = 0
        /\ ui = InitialButtons
        /\ importer = NoImporter

NextSuffix ==
    \/ \E i \in Rows(curves) : ClickRow(i) /\ UNCHANGED <<pastes, ui, importer>>
    \/ \E i \in Rows(curves) : CtrlClickRow(i) /\ UNCHANGED <<pastes, ui, importer>>
    \/ /\ \/ Len(selected) = 1
          \/ \A i \in Range(selected) : Len(At(curves, i).suffixes) < MaxNameSuffixes
       /\ \E ok \in BOOLEAN, text \in SuffixTexts : rename_curve_clicked(ok, text)
       /\ UNCHANGED <<pastes, ui, importer>>
    \/ /\ \/ ui.set_reference_checked
          \/ Len(selected) # 1
          \/ \A i \in Range(selected) : Len(At(curves, i).suffixes) < MaxNameSuffixes
       /\ ClickSetReference
       /\ UNCHANGED <<pastes, importer>>

SpecSuffix == InitSuffix /\ [][NextSuffix]_vars

\* ------------------------------------------------------- interpolate_to_ppo
\* Frequencies are kept by their place on the log2 axis, in ticks: a tick is
\* this part of an octave, so that 1, 2 and 3 points per octave fall on ticks
TicksPerOctave == 6

\* the highest place a frequency of an input curve may have
MaxTick == 5

\* the level of the input curve at a place, in dB
LevelAt(tick) == 10 * (tick % 3)

\* The grid runs on until a point lies a full step beyond the highest frequency.
RECURSIVE GridUpOvershoot(_, _, _)
GridUpOvershoot(p, step, hi) ==
    IF p >= hi + step THEN <<>> ELSE <<p>> \o GridUpOvershoot(p + step, step, hi)

\* the grid points from p upwards, as long as they are in range
RECURSIVE GridUp(_, _, _)
GridUp(p, step, hi) == IF p > hi THEN <<>> ELSE <<p>> \o GridUp(p + step, step, hi)

\* the grid points from p downwards, as long as they are in range
RECURSIVE GridDown(_, _, _)
GridDown(p, step, lo) == IF p < lo THEN <<>> ELSE Append(GridDown(p - step, step, lo), p)

\* linear interpolation of the levels against the log of the frequency,
\* between the neighbours a and b of the place p: an exact fraction; beyond
\* an end the level of that end is held
InterpolatedLevel(places, p) ==
    LET below == {t \in places : t <= p}
        above == {t \in places : t >= p}
        a == IF below = {} THEN Smallest(places) ELSE Largest(below)
        b == IF above = {} THEN Largest(places) ELSE Smallest(above)
    IN  IF a = b THEN [num |-> LevelAt(a), den |-> 1]
        ELSE [num |-> LevelAt(a) * (b - p) + LevelAt(b) * (p - a), den |-> b - a]

\* interpolate_to_ppo(frequencies, levels, ppo, must_contain_hz): the grid
\* spans [min, max] in steps of 1/ppo octave and holds must_contain_hz when
\* that lies in the range (None is -1); no point outside the range is made
interpolate_to_ppo(places, ppo, must_contain) ==
    LET lo == Smallest(places)
        hi == Largest(places)
        step == TicksPerOctave \div ppo
        start == IF must_contain >= lo /\ must_contain <= hi THEN must_contain ELSE lo
        grid == GridDown(start - step, step, lo) \o GridUp(start, step, hi)
    IN  [x |-> grid, y |-> [k \in 1..Len(grid) |-> InterpolatedLevel(places, grid[k])]]

\* the curves handed to it: two or more frequencies, strictly increasing
ValidPlaces == {places \in SUBSET (0..MaxTick) : Cardinality(places) >= 2}

\* the function is applied to the input that was drawn
Interpolate ==
    /\ ev.op = "xy"
    /\ ev' = Event("interpolate_to_ppo",
                   <<ev.out[1], ev.out[2], ev.out[3],
                     interpolate_to_ppo(ev.out[1], ev.out[2], ev.out[3])>>, "none")
    /\ UNCHANGED <<curves, qlist, selected, pastes, ui, importer>>

InitGrid ==
    /\ \E places \in ValidPlaces, ppo \in {1, 2, 3}, must_contain \in (-1)..(MaxTick + 2) :
          ev = Event("xy", <<places, ppo, must_contain>>, "none")
    /\ curves = <<>>
    /\ qlist = <<>>
    /\ selected = <<>>
    /\ pastes = 0
    /\ ui = InitialButtons
    /\ importer = NoImporter

NextGrid == Interpolate

SpecGrid == InitGrid /\ [][NextGrid]_vars

\* ------------------------------------- the collection and its list widget
\* every operation on the collection that has a button, the state load of the
\* menu and a processing function that inserts curves
InitList == InitRef

NextList ==
    \/ NextRef
    \/ reset_indexes /\ UNCHANGED <<pastes, ui, importer>>

SpecList == InitList /\ [][NextList]_vars

\* ------------------------------------- auto import under the modal dialog
\* how many curves the collection holds at most after a Run
MaxDialogCurves == 4

\* the state file the program is started with: two curves that are not among
\* the clipboard contents
OpenedState ==
    [k \in 1..2 |-> [visible |-> TRUE, identification |-> NoToken,
                     xy |-> NewCurve(MaxPastes + k).xy]]

\* processing_dialog.exec() has not returned: open_processing_dialog is the
\* handler in progress and its first record is the dialog being shown
DialogOpen ==
    /\ ev.op = "open_processing_dialog"
    /\ ev.out # <<>>
    /\ ev.out[1].sig = "ProcessingDialog.exec"

\* open_processing_dialog up to exec(); the record holds the rows selected now
OpenProcessingDialog ==
    /\ ~DialogOpen
    /\ ui.processing_enabled
    /\ ev' = IF Len(selected) = 0
             THEN Event("open_processing_dialog", <<bad_beep>>, "none")
             ELSE Event("open_processing_dialog",
                        <<Sig("ProcessingDialog.exec", selected)>>, "none")
    /\ UNCHANGED <<curves, qlist, selected, pastes, ui, importer>>

\* the event loop of exec() delivers a queued signal_new_import:
\* import_single_curve runs inside open_processing_dialog
HandleNewImportInDialog ==
    /\ DialogOpen
    /\ importer.queue # <<>>
    /\ LET r == ImportCurve(curves, qlist, Head(importer.queue))
       IN  /\ curves' = r.curves
           /\ qlist' = r.qlist
           /\ selected' = r.selected
    /\ ev' = [ev EXCEPT !.out = Append(@, good_beep)]
    /\ importer' = [importer EXCEPT !.queue = Tail(@)]
    /\ UNCHANGED <<pastes, ui>>

\* "Run" on the tab "Add gain": _save_and_close emits signal_processing_request,
\* _processing_dialog_return runs _add_gain, then accept() ends exec()
RunAddGain ==
    /\ DialogOpen
    /\ Len(curves) + Len(selected) <= MaxDialogCurves
    /\ \E gain_value \in {300} :
          processing_dialog_return("_add_gain", AddGainResult(gain_value))
    /\ UNCHANGED <<pastes, ui, importer>>

\* "Cancel": reject() ends exec()
CancelDialog ==
    /\ DialogOpen
    /\ ev' = Event("ProcessingDialog.reject", <<>>, "none")
    /\ UNCHANGED <<curves, qlist, selected, pastes, ui, importer>>

InitDialog ==
    LET st == AddSaved([curves |-> <<>>, qlist |-> <<>>], OpenedState)
    IN  /\ curves = st.curves
        /\ qlist = st.qlist
        /\ selected = <<>>
        /\ ev = NoEvent
        /\ pastes = 0
        /\ ui = InitialButtons
        /\ importer = NoImporter

\* the main window takes no input while the modal dialog is open; the clipboard
\* and the threads go on
NextDialog ==
    \/ CopyToClipboard
    \/ ~DialogOpen /\ auto_importer_status_toggle
    \/ \E t \in DOMAIN importer.threads : LoopTest(t)
    \/ \E t \in DOMAIN importer.threads : WaitForNewPaste(t)
    \/ \E t \in DOMAIN importer.threads : ParseAndEmit(t)
    \/ ~DialogOpen /\ HandleNewImport
    \/ HandleNewImportInDialog
    \/ /\ ~DialogOpen
       /\ \E i \in Rows(curves) : ClickRow(i)
       /\ UNCHANGED <<pastes, ui, importer>>
    \/ OpenProcessingDialog
    \/ RunAddGain
    \/ CancelDialog

SpecDialog == InitDialog /\ [][NextDialog]_vars

\* ------------------------------------------- _move_curve_up for any index
\* _move_curve_up(i_insert) with the selection as it is and any row as target
MoveCurveUpCalled(i_insert) ==
    LET r == move_curve_up(i_insert)
    IN  /\ curves' = r.curves
        /\ qlist' = r.qlist
        /\ selected' = r.selected
        /\ ev' = Event("_move_curve_up", <<Sig("i_insert", <<i_insert>>)>> \o r.out,
                       r.raised)
        /\ UNCHANGED <<pastes, ui, importer>>

InitMove == Init

NextMove ==
    \/ \E i \in Rows(curves) : ClickRow(i) /\ UNCHANGED <<pastes, ui, importer>>
    \/ \E i \in Rows(curves) : CtrlClickRow(i) /\ UNCHANGED <<pastes, ui, importer>>
    \/ \E i_insert \in Rows(curves) : MoveCurveUpCalled(i_insert)
    \/ move_up_1 /\ UNCHANGED <<pastes, ui, importer>>
    \/ move_to_top /\ UNCHANGED <<pastes, ui, importer>>

SpecMove == InitMove /\ [][NextMove]_vars

\* ------------------------------------- the settings of the processing dialog
\* the tabs "Statistics", "Summation" and "Gain" by their index
Tabs == {0, 5, 7}

\* The widgets of all forms go with every tab.
FormOfAnyTab(tab) ==
    <<"mean_selected", "median_selected", "sum_selected", "diff_selected",
      "add_gain_value">>

\* user_forms_and_recipient_functions[tab][0].interactable_widgets, by name
FormOfTab(tab) ==
    CASE tab = 0 -> <<"mean_selected", "median_selected">>
      [] tab = 5 -> <<"sum_selected", "diff_selected">>
      [] tab = 7 -> <<"add_gain_value">>

\* user_forms_and_recipient_functions[tab][1]
RecipientOfTab(tab) ==
    CASE tab = 0 -> "_mean_and_median_analysis"
      [] tab = 5 -> "_curve_summation"
      [] tab = 7 -> "_add_gain"

WidgetNames ==
    {"mean_selected", "median_selected", "sum_selected", "diff_selected", "add_gain_value"}

\* what a widget can be set to: a check box, or the spin box of the gain
WidgetValues(name) == IF name = "add_gain_value" THEN {0, 300} ELSE BOOLEAN

\* the fields of Settings with their defaults
DefaultSettings ==
    [name \in WidgetNames \cup {"processing_selected_tab"} |->
        CASE name = "processing_selected_tab" -> 0
          [] name = "mean_selected" -> FALSE
          [] name = "add_gain_value" -> 0
          [] OTHER -> TRUE]

\* no ProcessingDialog exists
NoDialog == [open |-> FALSE, tab |-> 0, widgets |-> [name \in WidgetNames |-> TRUE]]

\* ProcessingDialog.__init__: the current tab and every widget of every form are
\* set from settings
DialogFrom(settings) ==
    [open |-> TRUE, tab |-> settings["processing_selected_tab"],
     widgets |-> [name \in WidgetNames |-> settings[name]]]

\* settings.update(key, value) for each key in turn
RECURSIVE UpdateEach(_, _, _)
UpdateEach(settings, keys, widgets) ==
    IF Len(keys) = 0 THEN settings
    ELSE UpdateEach([settings EXCEPT ![keys[1]] = widgets[keys[1]]], Tail(keys), widgets)

\* _save_and_close up to the emit: the tab index and the widgets of the active
\* form are written to settings
save(settings, dialog) ==
    LET keys == FormOfTab(dialog.tab)
    IN  [settings |-> UpdateEach([settings EXCEPT !["processing_selected_tab"] = dialog.tab],
                                 keys, dialog.widgets),
         out |-> <<Sig("settings.update", <<"processing_selected_tab", dialog.tab>>)>>
                 \o [k \in 1..Len(keys) |->
                        Sig("settings.update", <<keys[k], dialog.widgets[keys[k]]>>)]]

\* the processing function of a tab, reading settings
Recipient(name, settings) ==
    CASE name = "_mean_and_median_analysis" ->
             mean_and_median_analysis(settings["mean_selected"], settings["median_selected"])
      [] name = "_curve_summation" ->
             curve_summation(settings["sum_selected"], settings["diff_selected"])
      [] name = "_add_gain" -> AddGainResult(settings["add_gain_value"])

\* open_processing_dialog with a selection: the dialog is made and shown
OpenDialog ==
    /\ ~ui.dialog.open
    /\ Len(curves) <= MaxRefCurves
    /\ Len(selected) > 0
    /\ ui' = [ui EXCEPT !.dialog = DialogFrom(ui.settings)]
    /\ ev' = Event("open_processing_dialog", <<Sig("ProcessingDialog.exec", selected)>>, "none")
    /\ UNCHANGED <<curves, qlist, selected, pastes, importer>>

\* the user goes to another tab
SelectTab ==
    /\ ui.dialog.open
    /\ \E tab \in Tabs \ {ui.dialog.tab} : ui' = [ui EXCEPT !.dialog.tab = tab]
    /\ ev' = Event("ProcessingDialog.edit", <<>>, "none")
    /\ UNCHANGED <<curves, qlist, selected, pastes, importer>>

\* the user changes a widget of the tab shown
EditWidget ==
    /\ ui.dialog.open
    /\ \E k \in 1..Len(FormOfTab(ui.dialog.tab)) :
          LET name == FormOfTab(ui.dialog.tab)[k]
          IN  \E value \in WidgetValues(name) \ {ui.dialog.widgets[name]} :
                 ui' = [ui EXCEPT !.dialog.widgets[name] = value]
    /\ ev' = Event("ProcessingDialog.edit", <<>>, "none")
    /\ UNCHANGED <<curves, qlist, selected, pastes, importer>>

\* "Run": _save_and_close, the slot _processing_dialog_return, accept()
RunClicked ==
    /\ ui.dialog.open
    /\ Spelled
    /\ LET saved == save(ui.settings, ui.dialog)
           name == RecipientOfTab(ui.dialog.tab)
           results == Recipient(name, saved.settings)
       IN  /\ processing_dialog_return(name,
                  [results EXCEPT !.out = saved.out
                                          \o <<Sig("signal_processing_request", <<name>>)>>
                                          \o @])
           /\ ui' = [ui EXCEPT !.settings = saved.settings, !.dialog = NoDialog]
    /\ UNCHANGED <<pastes, importer>>

\* "Cancel": reject()
CancelClicked ==
    /\ ui.dialog.open
    /\ ui' = [ui EXCEPT !.dialog = NoDialog]
    /\ ev' = Event("ProcessingDialog.reject", <<>>, "none")
    /\ UNCHANGED <<curves, qlist, selected, pastes, importer>>

\* started with a state file of two curves; settings hold their defaults
InitSettings ==
    LET st == AddSaved([curves |-> <<>>, qlist |-> <<>>], SavedState(2))
    IN  /\ curves = st.curves
        /\ qlist = st.qlist
        /\ selected = <<>>
        /\ ev = NoEvent
        /\ pastes = 0
        /\ ui = [set_reference_checked |-> FALSE, processing_enabled |-> TRUE,
                 settings |-> DefaultSettings, dialog |-> NoDialog]
        /\ importer = NoImporter

NextSettings ==
    \/ /\ ~ui.dialog.open
       /\ Len(curves) <= MaxRefCurves
       /\ \E i \in Rows(curves) : ClickRow(i)
       /\ UNCHANGED <<pastes, ui, importer>>
    \/ /\ ~ui.dialog.open
       /\ Len(curves) <= MaxRefCurves
       /\ \E i \in Rows(curves) : CtrlClickRow(i)
       /\ UNCHANGED <<pastes, ui, importer>>
    \/ OpenDialog
    \/ SelectTab
    \/ EditWidget
    \/ RunClicked
    \/ CancelClicked

SpecSettings == InitSettings /\ [][NextSettings]_vars

\* --------------------------------------------------- Settings.update alone
\* the largest number given to a setting
MaxValue == 1

\* a Python value with its exact type; False and True are the bools 0 and 1,
\* a float is written by its whole number
Typed(type, value) == [type |-> type, value |-> value]

\* the values update is called with
PyValues ==
    {Typed("bool", b) : b \in 0..1}
        \cup {Typed(type, n) : type \in {"int", "float"}, n \in 0..MaxValue}

\* _field_types of the fields processing_selected_tab: int = 0,
\* mean_selected: bool = False and add_gain_value: float = 0
field_types ==
    [name \in {"processing_selected_tab", "mean_selected", "add_gain_value"} |->
        CASE name = "processing_selected_tab" -> "int"
          [] name = "mean_selected" -> "bool"
          [] name = "add_gain_value" -> "float"]

\* QSettings holds no value for a key
Unset == Typed("none", 0)

\* __post_init__ with nothing stored: read_all_from_registry gives each
\* attribute field.type(field.default)
FirstSettings ==
    [settings |-> [name \in DOMAIN field_types |-> Typed(field_types[name], 0)],
     settings_sys |-> [name \in DOMAIN field_types |-> Unset]]

\* isinstance(new_val, expected_type) in place of the comparison of the types:
\* a bool is an int
update_isinstance(self, attr_name, new_val) ==
    IF ~(new_val.type = field_types[attr_name]
         \/ (new_val.type = "bool" /\ field_types[attr_name] = "int"))
    THEN [self |-> self, raised |-> "TypeError"]
    ELSE [self |-> [settings |-> [self.settings EXCEPT ![attr_name] = new_val],
                    settings_sys |-> [self.settings_sys EXCEPT ![attr_name] = new_val]],
          raised |-> "none"]

\* Settings.update(attr_name, new_val): TypeError when type(new_val) is not the
\* type of the field, else setattr and settings_sys.setValue of the attribute
update(self, attr_name, new_val) ==
    IF new_val.type # field_types[attr_name]
    THEN [self |-> self, raised |-> "TypeError"]
    ELSE [self |-> [settings |-> [self.settings EXCEPT ![attr_name] = new_val],
                    settings_sys |-> [self.settings_sys EXCEPT ![attr_name] =
                                          [self.settings EXCEPT ![attr_name] = new_val][attr_name]]],
          raised |-> "none"]

\* update is called for a field with a value of any type
UpdateCalled ==
    \E attr_name \in DOMAIN field_types, new_val \in PyValues :
        LET done == update([settings |-> ui.settings, settings_sys |-> ui.settings_sys],
                           attr_name, new_val)
        IN  /\ ui' = [ui EXCEPT !.settings = done.self.settings,
                                !.settings_sys = done.self.settings_sys]
            /\ ev' = Event("Settings.update", <<attr_name, new_val>>, done.raised)
            /\ UNCHANGED <<curves, qlist, selected, pastes, importer>>

\* the application was started for the first time, without a file
InitUpdate ==
    /\ curves = <<>>
    /\ qlist = <<>>
    /\ selected = <<>>
    /\ ev = NoEvent
    /\ pastes = 0
    /\ ui = [set_reference_checked |-> FALSE, processing_enabled |-> TRUE,
             settings |-> FirstSettings.settings,
             settings_sys |-> FirstSettings.settings_sys]
    /\ importer = NoImporter

NextUpdate == UpdateCalled

SpecUpdate == InitUpdate /\ [][NextUpdate]_vars

\* -------------------------------------------------------------- properties
\* rows of a list picked by a set of indexes, in list order
Picked(s, rows) == SelectSeq([k \in 1..Len(s) |-> <<k - 1, s[k]>>], LAMBDA p : p[1] \in rows)

Values(pairs) == [k \in 1..Len(pairs) |-> pairs[k][2]]

Min(S) == CHOOSE x \in S : \A y \in S : x <= y

\* the step just taken was handled by op
Handled(op) == ev'.op = op

\* C1: after move_to_top on a non-empty selection the selected curves are the
\* first |S| curves, in the relative order they had, and the unselected curves
\* follow in the relative order they had.
C1_MoveToTopKeepsOrder ==
    [][(Handled("move_to_top") /\ Len(selected) > 0) =>
            /\ ev'.raised = "none"
            /\ curves' = Values(Picked(curves, Range(selected)))
                         \o Values(Picked(curves, Rows(curves) \ Range(selected)))]_vars

\* rows 1 and 2 of three went to the top, in that order
C1_Witness ==
    /\ ev.op = "move_to_top"
    /\ Len(ev.out) = 1
    /\ ev.out[1].sig = "signal_reposition_curves_request"
    /\ DOMAIN ev.out[1].arg = {0, 1, 2}
    /\ ev.out[1].arg[1] = 0
    /\ ev.out[1].arg[2] = 1
    /\ ev.out[1].arg[0] = 2

\* C2: every completed _move_curve_up emits an old-index -> new-index mapping that
\* is a bijection on [0, N), and the curve now at mapping[i] is the curve that
\* was at i.
C2_MappingIsBijection ==
    [][((Handled("move_up_1") \/ Handled("move_to_top")) /\ Len(selected) > 0
            /\ ev'.raised = "none") =>
            /\ Len(ev'.out) = 1
            /\ ev'.out[1].sig = "signal_reposition_curves_request"
            /\ LET m == ev'.out[1].arg
               IN  /\ DOMAIN m = Rows(curves)
                   /\ {m[i] : i \in DOMAIN m} = Rows(curves)
                   /\ \A i, j \in DOMAIN m : m[i] = m[j] => i = j
                   /\ \A i \in DOMAIN m : At(curves', m[i]) = At(curves, i)]_vars

\* a move whose mapping differs from its own inverse
C2_Witness ==
    /\ ev.op \in {"move_up_1", "move_to_top"}
    /\ ev.raised = "none"
    /\ Len(ev.out) = 1
    /\ ev.out[1].sig = "signal_reposition_curves_request"
    /\ \E i \in DOMAIN ev.out[1].arg : ev.out[1].arg[ev.out[1].arg[i]] # i

\* C3: remove_curves with distinct valid indexes in any order leaves exactly the
\* curves that were not listed, in their original order, so the result is the
\* same for every permutation of the list.
C3_RemoveAnyOrder ==
    [][(Handled("remove_curves") /\ Len(selected) > 0) =>
            /\ curves' = Values(Picked(curves, Rows(curves) \ Range(selected)))
            /\ qlist' = Values(Picked(qlist, Rows(curves) \ Range(selected)))]_vars

\* two rows removed that were listed in ascending order, and a curve is left
C3_Witness ==
    /\ ev.op = "remove_curves"
    /\ Len(ev.out) = 1
    /\ ev.out[1].sig = "signal_remove_curves_request"
    /\ Len(ev.out[1].arg) = 2
    /\ ev.out[1].arg[1] < ev.out[1].arg[2]
    /\ Len(curves) >= 1

\* C6: after move_up_1 on a selection whose smallest index is at least 1, every
\* selected curve sits exactly one row higher and the unselected curves keep
\* their relative order.
C6_MoveUp1ByOne ==
    [][(Handled("move_up_1") /\ Len(selected) > 0 /\ Min(Range(selected)) >= 1) =>
            /\ ev'.raised = "none"
            /\ \A i \in Range(selected) : At(curves', i - 1) = At(curves, i)
            /\ Values(Picked(curves', Rows(curves) \ {i - 1 : i \in Range(selected)}))
                 = Values(Picked(curves, Rows(curves) \ Range(selected)))]_vars

\* C7: right after reset_indexes on a non-empty collection the curve at row i
\* carries the prefix '#' and i as two digits, the order is unchanged and the
\* labels sent to the graph map row i to that curve's new full name.
TwoDigitTag(i) == <<"#00", "#01", "#02", "#03", "#04", "#05", "#06", "#07", "#08", "#09">>[i + 1]

C7_ResetIndexes ==
    [][(Handled("reset_indexes") /\ Len(curves) > 0) =>
            /\ Len(curves') = Len(curves)
            /\ \A i \in Rows(curves) :
                  /\ At(curves', i) = [At(curves, i) EXCEPT !.prefix = TwoDigitTag(i)]
                  /\ At(qlist', i).text = get_full_name(At(curves', i))
            /\ Len(ev'.out) = 1
            /\ ev'.out[1].sig = "signal_update_labels_request"
            /\ DOMAIN ev'.out[1].arg = Rows(curves)
            /\ \A i \in Rows(curves) :
                  ev'.out[1].arg[i][1] = get_full_name(At(curves', i))]_vars

\* a reset of a collection whose first curve was not loaded first: its tag changed
C7_Witness ==
    /\ ev.op = "reset_indexes"
    /\ Len(curves) >= 2
    /\ curves[1].xy.data # 1
    /\ curves[1].prefix = "#00"

C5_MultiSelectionRejected ==
    [][(Handled("reference_curve_status_toggle(True)") /\ Len(selected) > 1) =>
            /\ curves' = curves
            /\ qlist' = qlist
            /\ ev'.raised = "none"
            /\ \A k \in 1..Len(ev'.out) :
                  ev'.out[k].sig # "signal_toggle_reference_curve_request"
            /\ \E k \in 1..Len(ev'.out) : ev'.out[k] = bad_beep
            /\ ~ui'.set_reference_checked]_vars

\* the toggle was pressed with two rows selected and answered with the bad beep
C5_Witness ==
    /\ ev.op = "reference_curve_status_toggle(True)"
    /\ Len(selected) = 2
    /\ ev.out = <<bad_beep>>
    /\ ~ui.set_reference_checked

\* the step just taken was a step of run() in AutoImporter thread t
WatcherStepped(t) ==
    /\ t \in DOMAIN importer.threads
    /\ importer'.threads[t].pc # importer.threads[t].pc

\* C8: the watcher thread never changes the curve list: a step of run() leaves
\* curves, list rows and selection as they are and at most appends one curve to
\* the queued signal_new_import calls; a queued call is taken only by
\* import_single_curve in the GUI thread, which appends that curve.
C8_WatcherOnlyEnqueues ==
    [][/\ \A t \in 1..MaxThreads : WatcherStepped(t) =>
              /\ curves' = curves
              /\ qlist' = qlist
              /\ selected' = selected
              /\ ev' = ev
              /\ \/ importer'.queue = importer.queue
                 \/ /\ importer.threads[t].pc = "Curve"
                    /\ importer'.queue = Append(importer.queue,
                                                NewCurve(importer.threads[t].cb_data.id))
       /\ (curves' # curves \/ qlist' # qlist) => \A t \in 1..MaxThreads : ~WatcherStepped(t)
       /\ Len(importer'.queue) < Len(importer.queue) =>
              /\ Handled("import_single_curve")
              /\ importer'.queue = Tail(importer.queue)
              /\ Len(curves') = Len(curves) + 1
              /\ curves'[Len(curves')].xy = [Head(importer.queue).xy EXCEPT !.ppo = import_ppo]]_vars

\* a queued curve was imported after the user had removed the first of two
\* curves, while a watcher thread is polling the clipboard
C8_Witness ==
    /\ ev.op = "import_single_curve"
    /\ Len(curves) = 2
    /\ curves[1].prefix = "#01"
    /\ curves[2].prefix = "#01"
    /\ \E t \in DOMAIN importer.threads : importer.threads[t].pc = "waitForNewPaste"

\* C9: once requestInterruption was issued to a watcher thread, its run loop ends:
\* the flag is tested at the start of every iteration, so after the iteration in
\* progress the thread finishes and emits nothing more; an exception inside an
\* iteration is logged and the loop goes on to its next test.
C9_WatcherStops ==
    /\ \A t \in 1..MaxThreads :
          (t \in DOMAIN importer.threads /\ importer.threads[t].interrupted)
             ~> (t \in DOMAIN importer.threads /\ importer.threads[t].pc = "finished")
    /\ [][\A t \in DOMAIN importer.threads :
             /\ (importer.threads[t].interrupted /\ importer.threads[t].pc = "while")
                   => importer'.threads[t].pc \in {"while", "finished"}
             /\ importer.threads[t].pc = "finished" => importer'.threads[t].pc = "finished"
             /\ (WatcherStepped(t) /\ importer'.queue # importer.queue)
                   => (importer.threads[t].pc = "Curve" /\ importer'.threads[t].pc = "while")
             /\ (WatcherStepped(t) /\ importer'.log # importer.log)
                   => (importer'.log = importer.log + 1 /\ importer'.threads[t].pc = "while")]_vars

\* a thread was interrupted, had logged an exception and emitted a curve, and has
\* finished, while a second thread is running
C9_Witness ==
    /\ Len(importer.threads) = 2
    /\ importer.threads[1].interrupted
    /\ importer.threads[1].pc = "finished"
    /\ importer.threads[2].pc = "waitForNewPaste"
    /\ importer.log >= 1
    /\ Len(curves) + Len(importer.queue) >= 1

\* C10: a table import never raises: whatever the text and the import settings,
\* the request ends with a normal return, invalid input with
\* signal_table_import_fail.
C10_TableImportNeverRaises ==
    [][Handled("_import_table_requested") => ev'.raised = "none"]_vars

C12_CountPreconditions ==
    [][/\ Handled("_mean_and_median_analysis")
          => ev'.raised = (IF Len(selected) < 2 THEN "ValueError" ELSE "none")
       /\ Handled("_outlier_detection")
          => ev'.raised = (IF Len(selected) < 3 THEN "ValueError" ELSE "none")
       /\ Handled("_curve_summation")
          => ev'.raised = (IF Len(selected) # 2 THEN "RuntimeError" ELSE "none")
       /\ (/\ ev'.op \in {"_mean_and_median_analysis", "_outlier_detection",
                           "_curve_summation"}
           /\ ev'.raised # "none")
          => /\ curves' = curves
             /\ qlist' = qlist
             /\ selected' = selected
             /\ ev'.out = <<>>]_vars

\* outlier detection was refused for two selected curves of three
C12_Witness ==
    /\ ev.op = "_outlier_detection"
    /\ ev.raised = "ValueError"
    /\ Len(selected) = 2
    /\ Len(curves) = 3

\* s can be had from t by leaving entries of t out
RECURSIVE IsSubsequence(_, _)
IsSubsequence(s, t) ==
    IF Len(s) = 0 THEN TRUE
    ELSE IF Len(t) = 0 THEN FALSE
    ELSE IF s[1] = t[1] THEN IsSubsequence(Tail(s), Tail(t))
    ELSE IsSubsequence(s, Tail(t))

\* the step was a processing function that hid or removed nothing
ProcessedOnly ==
    /\ ev'.op \in {"_add_gain", "_interpolate_curves", "_smoothen_curves",
                   "_mean_and_median_analysis", "_curve_summation",
                   "_calculate_sensitivity", "_show_best_fits", "_outlier_detection"}
    /\ \A k \in 1..Len(ev'.out) :
           ev'.out[k].sig \notin {"graph.update_labels_and_visibilities",
                                 "signal_remove_curves_request"}

\* C13: gain, interpolation, smoothing, mean/median, summation, band average,
\* best fit and outlier detection that neither hides nor removes leave every
\* curve of the collection as it was, with its list row, and in the same
\* relative order: the old collection is the new one without the inserted
\* curves.  The gain results are copies, so shifting them shifts no original.
C13_ProcessingKeepsCurves ==
    [][ProcessedOnly => /\ IsSubsequence(curves, curves')
                        /\ IsSubsequence(qlist, qlist')
                        /\ Len(qlist') = Len(curves')]_vars

\* two curves, one of them hidden, were shifted by a gain and their copies inserted
C13_Witness ==
    /\ ev.op = "_add_gain"
    /\ ev.raised = "none"
    /\ Len(selected) = 2
    /\ Len(curves) = 4
    /\ \E k \in 1..Len(curves) : curves[k].xy.gain # 0
    /\ \E k \in 1..Len(curves) : ~curves[k].visible

\* C14: the suffix of a gain copy is "subtracted", the negated gain with two
\* decimals and "dB" for a gain below zero, and "added", the gain with two
\* decimals and "dB" for zero and above: +3.0 gives "added 3.00dB" and -2.5
\* gives "subtracted 2.50dB".
C14_GainSuffix ==
    ev.op = "desc_text"
    => LET gain_value == ev.out[1]
           desc_text == ev.out[2]
           size == IF gain_value < 0 THEN -gain_value ELSE gain_value
           digits == <<"0", "1", "2", "3", "4", "5", "6", "7", "8", "9">>
           number == digits[(size \div 100) + 1] \o "."
                     \o digits[((size \div 10) % 10) + 1] \o digits[(size % 10) + 1]
       IN  /\ (gain_value < 0 /\ size < 1000) => desc_text = "subtracted " \o number \o "dB"
           /\ (gain_value >= 0 /\ size < 1000) => desc_text = "added " \o number \o "dB"
           /\ gain_value = 300 => desc_text = "added 3.00dB"
           /\ gain_value = -250 => desc_text = "subtracted 2.50dB"
           /\ gain_value = 0 => desc_text = "added 0.00dB"
           /\ gain_value = -5 => desc_text = "subtracted 0.05dB"

\* the suffix for a gain of -2.5 dB was computed
C14_Witness == ev.op = "desc_text" /\ ev.out[1] = -250

\* s is a run of consecutive characters of name
IsSubstring(s, name) ==
    \E a \in 0..(Len(name) - Len(s)) : SubSeq(name, a + 1, a + Len(s)) = s

C16_SpeakerExample ==
    (ev.op = "find_longest_match_in_name" /\ ev.out[1] = SpeakerNames)
    => /\ \A p \in {<<0, 1>>, <<0, 2>>, <<1, 2>>} :
             matching_substring(SpeakerNames, p) = <<"S", "p", "e", "a", "k", "e", "r", " ", "A", " ", "-", " ">>
       /\ ev.out[2] = <<"S", "p", "e", "a", "k", "e", "r", " ", "A", " ", "-", " ">>
       /\ ev.out[3] = <<"S", "p", "e", "a", "k", "e", "r", " ", "A">>
       /\ Text(ev.out[3]) = "Speaker A"

\* the function was called with the three speaker names
C16_Witness ==
    /\ ev.op = "find_longest_match_in_name"
    /\ Len(ev.out[1]) = 3
    /\ Text(ev.out[1][1]) = "Speaker A - Left"
    /\ Text(ev.out[1][2]) = "Speaker A - Right"
    /\ Text(ev.out[1][3]) = "Speaker A - Center"

\* the ranking was computed in the step just taken; its settings and its rows
RankingShown == Handled("_show_best_fits") /\ ev'.raised = "none" /\ Len(selected) = 1

RankingSettings == ev'.out[1].arg

RankingRows == ev'.out[Len(ev'.out) - 1].arg[2]

\* the deviation shown for the curve: the value in the row of its name
Deviation(curve) ==
    LET rows == RankingRows
    IN  rows[CHOOSE k \in 1..Len(rows) : rows[k][1] = get_full_name(curve)][2]

DistinctNames ==
    \A j, k \in 1..Len(curves) : j # k => get_full_name(curves[j]) # get_full_name(curves[k])

\* C17: the weight multiplies the squared residuals inside the critical band.
\* With weight 0 the points of the band do not count: two curves whose squared
\* residuals agree at every point outside the band have the same deviation.
\* With weight 1 the deviation is the unweighted one, the sum of the squared
\* residuals over the number of points less one.
C17_CriticalWeight ==
    [][(RankingShown /\ DistinctNames)
       => LET ref_curve == At(curves, selected[1])
              band == critical_columns(RankingSettings[1], RankingSettings[2])
              weight == RankingSettings[3]
          IN  /\ (weight = 0 /\ band # {})
                 => \A j, k \in 1..Len(curves) :
                        (\A f \in (1..Len(FitFreqs)) \ band :
                             ResidualsSquared(ref_curve, curves[j])[f]
                             = ResidualsSquared(ref_curve, curves[k])[f])
                        => Deviation(curves[j]).num * Deviation(curves[k]).den
                           = Deviation(curves[k]).num * Deviation(curves[j]).den
              /\ weight = 1
                 => \A k \in 1..Len(curves) :
                        Deviation(curves[k]).num * (Len(FitFreqs) - 1)
                        = SumOf(ResidualsSquared(ref_curve, curves[k]))
                          * Deviation(curves[k]).den]_vars

\* C18: the ranking has exactly one row for each curve of the collection,
\* selected or not, the reference among them, also when several curves have
\* the same full name.
C18_OneRowPerCurve ==
    [][RankingShown
       => /\ Len(RankingRows) = Len(curves)
          /\ \A k \in 1..Len(curves) :
                 \E r \in 1..Len(RankingRows) : RankingRows[r][1] = get_full_name(curves[k])]_vars

C20_EmptyBandIsSkipped ==
    [][(/\ Handled("_show_best_fits")
        /\ Len(selected) = 1
        /\ critical_columns(RankingSettings[1], RankingSettings[2]) = {})
       => /\ ev'.raised = "none"
          /\ Len(ev'.out) = 4
          /\ ev'.out[2] = Sig("logger.warning", <<>>)
          /\ ev'.out[3].sig = "ResultTextBox.show"
          /\ ev'.out[4] = good_beep
          /\ \A r \in 1..Len(RankingRows) :
                 \E k \in 1..Len(curves) :
                     /\ RankingRows[r][1] = get_full_name(curves[k])
                     /\ RankingRows[r][2].num * (Len(FitFreqs) - 1)
                        = SumOf(ResidualsSquared(At(curves, selected[1]), curves[k]))
                          * RankingRows[r][2].den
          /\ curves' = curves
          /\ qlist' = qlist
          /\ selected' = selected]_vars

\* a ranking of two curves was shown with the warning, the band above all
\* sampled frequencies
C20_Witness ==
    /\ ev.op = "_show_best_fits"
    /\ ev.raised = "none"
    /\ Len(ev.out) = 4
    /\ ev.out[1].arg[1] > FitFreqs[Len(FitFreqs)]
    /\ ev.out[2].sig = "logger.warning"
    /\ Len(ev.out[3].arg[2]) = 2

\* C21: a state that is saved and loaded into an empty collection gives the
\* same number of curves in the same order, each with the x and y data, the
\* visibility and the identification of the curve saved at its position
C21_StateRoundTrip ==
    [][Handled("add_state_from_file")
       => /\ Len(curves') = Len(curves)
          /\ \A k \in 1..Len(curves) :
                /\ curves'[k].xy = curves[k].xy
                /\ curves'[k].visible = curves[k].visible
                /\ curves'[k].identification = curves[k].identification]_vars

\* a reloaded collection with a hidden, resampled curve and a foreign token
C21_Witness ==
    /\ ev.op = "add_state_from_file"
    /\ Len(curves) = 3
    /\ \E i, j \in Rows(curves) :
          /\ ~At(curves, i).visible
          /\ At(curves, i).xy.ppo = import_ppo
          /\ At(curves, j).identification = "token"
          /\ i < j

\* C22: with the outlier action Hide or Remove, the curves hidden or removed
\* are exactly the selected curves that iqr_analysis flagged, its indexes
\* being positions in the order of the selection; every other curve of the
\* collection stays, as it was and in its order, below the three new curves
C22_OutliersMappedBack ==
    [][(/\ Handled("_outlier_detection")
        /\ ev'.raised = "none"
        /\ ev'.out[1].arg[1] \in {"Hide", "Remove"})
       => LET keys == ev'.out[2].arg[1]
              flagged == {At(keys, p) : p \in Range(ev'.out[2].arg[2])}
              kept == SelectSeq(RangeList(Len(curves)), LAMBDA i : i \notin flagged)
          IN  /\ ev'.out[1].arg[1] = "Hide"
                 => /\ Len(curves') = Len(curves) + 3
                    /\ \A i \in Rows(curves) :
                          At(curves', i + 3)
                             = [At(curves, i) EXCEPT !.visible = IF i \in flagged
                                                                 THEN FALSE ELSE @]
              /\ ev'.out[1].arg[1] = "Remove"
                 => /\ Len(curves') = Len(kept) + 3
                    /\ \A k \in 1..Len(kept) : curves'[k + 3] = At(curves, kept[k])]_vars

\* C23: when the toggle is switched off (the button unchecked by the user, or
\* by setChecked(False) after a click with a selection that is not one curve)
\* while more than one curve is flagged as reference, ValueError is raised and
\* no curve and no list row changes
C23_MultipleReferencesRaise ==
    [][(/\ \/ Handled("reference_curve_status_toggle(False)")
           \/ Handled("reference_curve_status_toggle(True)") /\ Len(selected) # 1
        /\ ui' # ui
        /\ Cardinality({i \in Rows(curves) : At(curves, i).ref}) > 1)
       => /\ ev'.raised = "ValueError"
          /\ curves' = curves
          /\ qlist' = qlist]_vars

\* the button was unchecked on three curves, two of them references, and the
\* error was raised
C23_Witness ==
    /\ ev.op = "reference_curve_status_toggle(False)"
    /\ ev.raised = "ValueError"
    /\ Len(curves) = 3
    /\ Cardinality(ReferenceCurves(curves)) = 2
    /\ \E i \in Rows(curves) : At(qlist, i).text = IndexPrefix(i) \o " reference"

\* C24: _smoothen_curves with a smoothing type that is none of the four it
\* knows raises NotImplementedError, and then nothing is inserted: curves,
\* list rows and selection are as before and nothing is emitted
C24_UnknownSmoothingRaises ==
    [][(/\ Handled("_smoothen_curves")
        /\ ev'.out[1].arg[1] \notin {"Butterworth 8th, log spaced",
                                     "Butterworth 4th, log spaced",
                                     "Rectangular, w/o interpolation",
                                     "Gaussian, log spaced"})
       => /\ ev'.raised = "NotImplementedError"
          /\ Len(ev'.out) = 1
          /\ curves' = curves
          /\ qlist' = qlist
          /\ selected' = selected]_vars

\* the unknown type was asked for with two curves of three selected
C24_Witness ==
    /\ ev.op = "_smoothen_curves"
    /\ ev.raised = "NotImplementedError"
    /\ ev.out[1].arg = <<"Median">>
    /\ Len(selected) = 2
    /\ Len(curves) = 3

\* the suffixes of the curve in row i before and after a step
SuffixesOf(i) == At(curves, i).suffixes

NewSuffixesOf(i) == At(curves', i).suffixes

\* C25: suffixes are an ordered sequence that may hold duplicates.  A suffix
\* added (by the rename of several curves, by marking the reference) becomes
\* one more entry at the end, whether or not the text is there already; taking
\* the reference mark off drops the first entry "reference" only and leaves
\* the others in their order.
C25_SuffixSequence ==
    [][/\ (Handled("_rename_curve_clicked") /\ Len(selected) > 1 /\ curves' # curves)
          => \E text \in {"reference", "x"} :
                \A i \in Range(selected) : NewSuffixesOf(i) = Append(SuffixesOf(i), text)
       /\ (Handled("reference_curve_status_toggle(True)") /\ Len(selected) = 1)
          => NewSuffixesOf(selected[1]) = Append(SuffixesOf(selected[1]), "reference")
       /\ (Handled("reference_curve_status_toggle(False)") /\ ui' # ui)
          => \A i \in Rows(curves) :
                 (At(curves, i).ref /\ \E k \in 1..Len(SuffixesOf(i)) :
                                           SuffixesOf(i)[k] = "reference")
                 => \E k \in 1..Len(SuffixesOf(i)) :
                       /\ SuffixesOf(i)[k] = "reference"
                       /\ \A j \in 1..(k - 1) : SuffixesOf(i)[j] # "reference"
                       /\ NewSuffixesOf(i)
                             = [j \in 1..(Len(SuffixesOf(i)) - 1) |->
                                    IF j < k THEN SuffixesOf(i)[j] ELSE SuffixesOf(i)[j + 1]]
      ]_vars

\* the reference mark was taken off a curve that carried "reference" twice,
\* around another suffix: the second one is left, behind the other suffix;
\* the other curve carries one suffix twice
C25_Witness ==
    /\ ev.op = "reference_curve_status_toggle(False)"
    /\ At(curves, 0).suffixes = <<"x", "reference">>
    /\ ~At(curves, 0).ref
    /\ At(curves, 1).suffixes = <<"x", "x">>

\* C26: every frequency interpolate_to_ppo returns lies within the lowest and
\* the highest frequency of the curve it was given, for every valid curve and
\* every ppo above 0
C26_NoExtrapolation ==
    ev.op = "interpolate_to_ppo"
    => LET places == ev.out[1]
           new_x == ev.out[4].x
       IN  \A k \in 1..Len(new_x) :
              /\ \E t \in places : t <= new_x[k]
              /\ \E t \in places : t >= new_x[k]

\* a curve whose lowest and highest frequency are off the grid, resampled
\* around a must-contain frequency inside its range
C26_Witness ==
    /\ ev.op = "interpolate_to_ppo"
    /\ ev.out[1] = {1, 5}
    /\ ev.out[2] = 3
    /\ ev.out[3] = 2
    /\ ev.out[4].x = <<2, 4>>

\* C27: the list widget has one row per curve of the collection, and row i
\* shows the full name of curves[i], after every operation
C27_ListShowsCurves ==
    /\ Len(qlist) = Len(curves)
    /\ \A i \in Rows(curves) : At(qlist, i).text = get_full_name(At(curves, i))

\* the indexes were reset on two curves of which the second is the reference
\* and carries its suffix, both rows showing the new prefixes
C27_Witness ==
    /\ ev.op = "reset_indexes"
    /\ Len(curves) = 2
    /\ At(curves, 1).ref
    /\ At(curves, 1).suffixes # <<>>
    /\ At(curves, 0).prefix = IndexPrefix(0)
    /\ At(qlist, 1).text = get_full_name(At(curves, 1))
    /\ At(qlist, 0).text # At(qlist, 1).text

\* the AutoImporter threads that are inside pyperclip.waitForNewPaste
Polling == {t \in DOMAIN importer.threads : importer.threads[t].pc = "waitForNewPaste"}

\* the curves made of clipboard content id: added to the collection or emitted
\* and waiting for import_single_curve
ImportsOf(id) ==
    Len(SelectSeq(curves, LAMBDA c : c.xy.data = id))
        + Len(SelectSeq(importer.queue, LAMBDA c : c.xy.data = id))

\* no clipboard content is imported twice
OneImportPerPaste == \A id \in 1..MaxPastes : ImportsOf(id) <= 1

\* C28: whatever the sequence of auto-import toggles, at most one AutoImporter
\* thread is polling the clipboard at any time, and one new clipboard content
\* leads to at most one import_single_curve call and at most one added curve
C28_OnePollingThread ==
    /\ Cardinality(Polling) <= 1
    /\ OneImportPerPaste

\* C29: the curves a processing function works on are the curves that were
\* selected when open_processing_dialog was called: Run of "Add gain" inserts,
\* at the top and in that order, one curve made of each row selected at the
\* opening, also when a curve was auto-imported while the dialog was open
C29_RunUsesOpeningSelection ==
    [][(DialogOpen /\ Handled("_add_gain"))
          => LET opened == ev.out[1].arg
             IN  /\ Len(curves') = Len(curves) + Len(opened)
                 /\ \A k \in 1..Len(opened) :
                       curves'[k].xy.data = At(curves, opened[k]).xy.data]_vars

\* how many times signal s is among the signals out
Emitted(out, s) == Len(SelectSeq(out, LAMBDA e : e = s))

\* C30: every execution of _import_table_requested that emits
\* signal_table_import_busy emits exactly one of signal_table_import_successful
\* and signal_table_import_fail before it ends, by return or by exception
C30_BusyIsAnswered ==
    [][(/\ Handled("_import_table_requested")
        /\ Emitted(ev'.out, table_import_busy) > 0)
          => Emitted(ev'.out, table_import_successful)
                + Emitted(ev'.out, table_import_fail) = 1]_vars

\* C31: a table import is all or nothing: a request that does not end with
\* signal_table_import_successful leaves the curves and the list rows exactly
\* as they were before it
C31_TableImportAllOrNothing ==
    [][(/\ Handled("_import_table_requested")
        /\ Emitted(ev'.out, table_import_successful) = 0)
          => (curves' = curves /\ qlist' = qlist)]_vars

\* the reference toggle was switched on for one selected curve by the handler
\* that ran last, and is switched off by this step
OnThenOff ==
    /\ ev.op = "reference_curve_status_toggle(True)"
    /\ ev.raised = "none"
    /\ ui.set_reference_checked
    /\ Handled("reference_curve_status_toggle(False)")
    /\ ui' # ui

\* C32: for a curve with any suffix sequence, switching the reference toggle on
\* with that curve alone selected and then off, with nothing in between, gives
\* the curve the suffix sequence and the full name it had before and leaves it
\* not the reference
C32_ToggleOnOffRestores ==
    [][OnThenOff
          => LET index == ev.out[1].arg[1]
                 marked == ev.out[1].arg[2]
                 before == [marked EXCEPT
                               !.suffixes = SubSeq(@, 1, Len(@) - 1), !.ref = FALSE]
             IN  /\ At(curves', index) = before
                 /\ At(qlist', index).text = get_full_name(before)]_vars

\* C33: from an empty collection, after any sequence of single-curve imports,
\* processing insertions and removals, no two curves of the collection carry
\* the same name prefix
C33_PrefixesDiffer ==
    \A i, j \in Rows(curves) : i # j => At(curves, i).prefix # At(curves, j).prefix

\* the row that the curve of row i has after one curve was inserted below
\* each selected row
RowAfter(i) == i + Cardinality({j \in Range(selected) : j < i})

\* C34: after _interpolate_curves or _smoothen_curves over any selection the
\* collection has grown by the number of selected curves, every curve it held
\* is there unchanged and in the same order, and the curve derived from a
\* selected curve sits in the row right below it, under its base name and
\* suffixes with one suffix more
C34_DerivedBelowSource ==
    [][(/\ ev'.op \in {"_interpolate_curves", "_smoothen_curves"}
        /\ ev'.raised = "none"
        /\ curves' # curves)
          => /\ Len(curves') = Len(curves) + Len(selected)
             /\ \A i \in Rows(curves) : At(curves', RowAfter(i)) = At(curves, i)
             /\ \A i \in Range(selected) :
                   LET source == At(curves, i)
                       new_curve == At(curves', RowAfter(i) + 1)
                   IN  /\ new_curve.xy.data = source.xy.data
                       /\ new_curve.base = source.base
                       /\ Len(new_curve.suffixes) = Len(source.suffixes) + 1
                       /\ SubSeq(new_curve.suffixes, 1, Len(source.suffixes))
                             = source.suffixes]_vars

\* the first and the last of three curves were interpolated: the collection
\* holds five curves, the derived ones in the rows 1 and 4
C34_Witness ==
    /\ ev.op = "_interpolate_curves"
    /\ ev.raised = "none"
    /\ Len(curves) = 5
    /\ \A i \in {0, 2, 3} : At(curves, i).suffixes = <<>>
    /\ \A i \in {1, 4} : Len(At(curves, i).suffixes) = 1
    /\ At(curves, 1).xy.data = At(curves, 0).xy.data
    /\ At(curves, 4).xy.data = At(curves, 3).xy.data

\* C35: _move_curve_up fails atomically.  For any target row and any selection
\* it raises IndexError exactly when the lowest selected row lies above the
\* target, and then curves, list rows and selection are as before the call
\* and nothing is emitted.
C35_MoveFailsAtomically ==
    [][/\ (/\ ev'.op \in {"_move_curve_up", "move_up_1", "move_to_top"}
           /\ ev'.raised = "IndexError")
          => /\ curves' = curves
             /\ qlist' = qlist
             /\ selected' = selected
             /\ \A k \in 1..Len(ev'.out) : ev'.out[k].sig = "i_insert"
       /\ (Handled("_move_curve_up") /\ Len(selected) > 0)
          => LET i_insert == ev'.out[1].arg[1]
                 first == CHOOSE i \in Range(selected) : \A j \in Range(selected) : i <= j
             IN  (ev'.raised = "IndexError") <=> (first < i_insert)]_vars

\* the call was refused for the rows 0 and 2 with row 1 as the target: row 2
\* alone could have moved
C35_Witness ==
    /\ ev.op = "_move_curve_up"
    /\ ev.raised = "IndexError"
    /\ ev.out[1].arg = <<1>>
    /\ Range(selected) = {0, 2}
    /\ Len(curves) = 3

\* the step is a click on "Run" of the open processing dialog
RunStep == ui.dialog.open /\ ~ui'.dialog.open /\ ev'.op # "ProcessingDialog.reject"

\* the position of the first signal named sig among out, 0 without one
FirstOf(out, sig) ==
    IF \E k \in 1..Len(out) : out[k].sig = sig
    THEN CHOOSE k \in 1..Len(out) :
             out[k].sig = sig /\ \A j \in 1..(k - 1) : out[j].sig # sig
    ELSE 0

\* C36: on Run the active tab index and the value of every widget of the active
\* tab are written to settings before signal_processing_request is emitted,
\* the processing function works with the values the dialog shows, settings of
\* other tabs are left as they were, and Cancel writes nothing
C36_RunSavesActiveTab ==
    [][/\ RunStep
          => LET tab == ui.dialog.tab
                 shown == ui.dialog.widgets
                 keys == CASE tab = 0 -> {"mean_selected", "median_selected"}
                           [] tab = 5 -> {"sum_selected", "diff_selected"}
                           [] tab = 7 -> {"add_gain_value"}
                 emit == FirstOf(ev'.out, "signal_processing_request")
                 grown == Len(curves') - Len(curves)
             IN  /\ ui'.settings["processing_selected_tab"] = tab
                 /\ \A name \in keys : ui'.settings[name] = shown[name]
                 /\ \A name \in WidgetNames \ keys : ui'.settings[name] = ui.settings[name]
                 /\ emit = Cardinality(keys) + 2
                 /\ ev'.out[1] = Sig("settings.update", <<"processing_selected_tab", tab>>)
                 /\ \A name \in keys :
                       \E k \in 2..(emit - 1) :
                          ev'.out[k] = Sig("settings.update", <<name, shown[name]>>)
                 /\ \A k \in 1..Len(ev'.out) :
                       ev'.out[k].sig = "settings.update" => k < emit
                 /\ ev'.out[emit].arg = <<ev'.op>>
                 /\ (tab = 0 /\ ev'.raised = "none")
                       => /\ ev'.op = "_mean_and_median_analysis"
                          /\ grown = (IF shown["mean_selected"] THEN 1 ELSE 0)
                                       + (IF shown["median_selected"] THEN 1 ELSE 0)
                 /\ (tab = 5 /\ ev'.raised = "none")
                       => /\ ev'.op = "_curve_summation"
                          /\ grown = (IF shown["sum_selected"] THEN 1 ELSE 0)
                                       + (IF shown["diff_selected"] THEN 1 ELSE 0)
                 /\ (tab = 7 /\ ev'.raised = "none")
                       => /\ ev'.op = "_add_gain"
                          /\ grown = Len(selected)
                          /\ \A k \in 1..Len(selected) :
                                curves'[k].xy.gain
                                   = At(curves, selected[k]).xy.gain + shown["add_gain_value"]
       /\ (ui.dialog.open /\ Handled("ProcessingDialog.reject"))
          => /\ ui'.settings = ui.settings
             /\ curves' = curves]_vars

\* Run was clicked on the tab "Gain" with a gain of 3 dB for one selected
\* curve, after an earlier Run on the tab "Summation" had saved both of its
\* check boxes unticked: the gain and the tab are saved, the others kept
C36_Witness ==
    /\ ev.op = "_add_gain"
    /\ ev.raised = "none"
    /\ ~ui.dialog.open
    /\ ui.settings["processing_selected_tab"] = 7
    /\ ui.settings["add_gain_value"] = 300
    /\ ~ui.settings["sum_selected"]
    /\ ~ui.settings["diff_selected"]
    /\ ~ui.settings["mean_selected"]
    /\ Len(curves) = 3
    /\ curves[1].xy.gain = 300

\* C37: for a list of two names or more, the string returned by
\* find_longest_match_in_name is a run of consecutive characters (possibly
\* none) of two of the names, taken at two different places of the list, and
\* has no more characters than the shorter of those two.
C37_ReturnedIsCommonSubstring ==
    (ev.op = "find_longest_match_in_name" /\ Len(ev.out[1]) >= 2)
    => LET names == ev.out[1]
           returned == ev.out[3]
       IN  \E i, j \in 1..Len(names) :
              /\ i # j
              /\ IsSubstring(returned, names[i])
              /\ IsSubstring(returned, names[j])
              /\ Len(returned) <= Len(names[i])
              /\ Len(returned) <= Len(names[j])

\* separators were stripped from the key and characters are left: the value
\* returned is shorter than the block the pairs share
C37_Witness ==
    /\ ev.op = "find_longest_match_in_name"
    /\ Len(ev.out[1]) >= 2
    /\ Len(ev.out[3]) > 0
    /\ Len(ev.out[3]) < Len(ev.out[2])

\* C38: Settings.update(attr, v) ends with TypeError whenever the exact type
\* of v is not the type declared for the field (a bool for the int field, an
\* int for the float field), and then the attribute and the value kept by
\* QSettings are as before; otherwise it returns, and the attribute and the
\* value kept by QSettings are both v.
C38_UpdateChecksExactType ==
    [][Handled("Settings.update")
       => LET attr == ev'.out[1]
              v == ev'.out[2]
              declared == CASE attr = "processing_selected_tab" -> "int"
                            [] attr = "mean_selected" -> "bool"
                            [] attr = "add_gain_value" -> "float"
          IN  IF v.type # declared
              THEN /\ ev'.raised = "TypeError"
                   /\ ui'.settings[attr] = ui.settings[attr]
                   /\ ui'.settings_sys[attr] = ui.settings_sys[attr]
              ELSE /\ ev'.raised = "none"
                   /\ ui'.settings[attr] = v
                   /\ ui'.settings_sys[attr] = v]_vars

\* True was refused for the int field, which keeps the int 1 written before;
\* the gain was written as the float 1 and mean_selected was never written
C38_Witness ==
    /\ ev = Event("Settings.update", <<"processing_selected_tab", Typed("bool", 1)>>, "TypeError")
    /\ ui.settings["processing_selected_tab"] = Typed("int", 1)
    /\ ui.settings_sys["processing_selected_tab"] = Typed("int", 1)
    /\ ui.settings["add_gain_value"] = Typed("float", 1)
    /\ ui.settings_sys["mean_selected"] = Unset

====
